---- MODULE Spec2Model ----
(***************************************************************************)
(* A model of the synchrotron sync engine (src/src/sync/engine.ts,         *)
(* manifest.ts, metadata.ts): directory sets (SyncEngine.syncSet) and file *)
(* sets (SyncEngine.syncFileSet), the peers' files on disk, the .sync      *)
(* metadata, the sidecars and the fire-and-forget streaming copies; and of  *)
(* the daemon around it (src/src/daemon/runner.ts, src/src/sync/watcher.ts):*)
(* the watchers (fs.watch and polling), the debounce timers that run the   *)
(* passes, and the start-up of daemons over the PID file.                  *)
(*                                                                         *)
(* A pass has no await in it, so it is one atomic action; a pass whose      *)
(* process is killed ends between two of its pairs.  The environment       *)
(* writes and deletes files between passes.                                *)
(*                                                                         *)
(* Time: the code only compares time stamps (the mtimeMs of two files      *)
(* under last-write-wins, the stamps inside conflict names), so the clock  *)
(* reads the latest stamp in existence and every new stamp is the least    *)
(* one after it, or equal to it.  Modification times are read by           *)
(* last-write-wins and by the polling watcher; under keep-both every file  *)
(* carries mtimeMs 0, and the polling watcher runs under last-write-wins.  *)
(***************************************************************************)
EXTENDS Integers, Sequences, FiniteSets, TLC

VARIABLES
    set,        \* the SyncSet of the run: [type, conflictResolution, npeers, ignore]
    disk,       \* disk[p]: the files of peer p, name -> [content, mtimeMs]
    meta,       \* meta[p]: the .sync metadata of directory peer p, or NoMeta
    sidecar,    \* sidecar[p]: the <file>.sync sidecar of file peer p, or NoMeta
    streams,    \* streaming copies scheduled by a pass and not yet finished
    missing,    \* the directory peers whose configured directory does not exist
    locked,     \* the files <<peer, name>> that are not writable
    event,      \* the ChangeEvent the watcher emitted for the last file that
                \* another program touched or at its last poll, NoEvent when
                \* it emitted none
    budget,     \* how many external changes the run may still make
    scheduled,  \* how many streaming copies the passes have scheduled
    pre,        \* the disk, metadata and sidecars the last pass started from
    result,     \* the SyncResult of the last pass
    trace,      \* the file operations of the last pass, in order
    lastOp,     \* the last step taken
    sched,      \* the daemon's scheduler: the timers of the event loop, the
                \* debounceTimers map and the number of timers created
    watch,      \* the watcher (its fs.watch watchers, poll timers and
                \* snapshots) and what it has notified: per sync set the time
                \* since its last notification and the passes run since then
    os          \* the processes of the machine (start commands and daemons,
                \* each at its step), the PID file, and the directory tree
                \* around a peer whose files lie in subdirectories

vars ==
    <<set, disk, meta, sidecar, streams, missing, locked, event, budget, scheduled,
      pre, result, trace, lastOp, sched, watch, os>>

daemonVars == <<sched, watch, os>>

\* ------------------------------------------------------------------ bounds

\* external changes (writes and deletes) in one run
MaxEdits == 2
\* external changes in one run of two directory peers at rest
MaxPairEdits == 3
\* streaming copies scheduled in one run
MaxStreams == 2
\* changes of the environment in one run with faults
MaxFaultEdits == 2
\* change notifications of the watchers in one run
MaxNotifications == 3
\* external changes in one run of three directory peers at rest
MaxTripleEdits == 3
\* processes (start commands and daemons) in one run
MaxProcesses == 3
\* changes of the environment and stopped passes in SpecCrash
MaxCrashEdits == 2
\* changes of the environment in one run of two peers with faults
MaxRetryEdits == 3
\* files that other programs leave in one run
MaxNameEdits == 2
\* external changes in one run that reads back what it wrote
MaxMetaEdits == 1
\* changes of the files and of the ignore patterns in one run
MaxIgnoreEdits == 2

\* ------------------------------------------------------------ program data

\* engine.ts:16, in MiB
STREAMING_THRESHOLD == 10

NoMeta == [none |-> TRUE]
\* a metadata file that is there and cannot be parsed, or lacks a field
CorruptMeta == [corrupt |-> TRUE]
NoFile == "absent"

\* File contents are "o", "a", "b" (small), "L" (a content of more than
\* 10 MiB) and "" (the empty file a write stream leaves behind when its source
\* cannot be read).  stat.size, in MiB rounded up:
Size(c) == CASE c = "L" -> 11 [] c = "" -> 0 [] OTHER -> 1

\* sha256 of the content: injective on contents
hashFile(c) == <<"sha256", c>>

\* A file name below a peer root: a configured path and the conflict stamps
\* that keep-both resolution has put before its extension.
PathOrder == <<"F", "G">>
Canon(p) == [path |-> p, stamps |-> <<>>]
IsCanon(n) == n.stamps = <<>>

\* `${base}.conflict-${timestamp}${ext}`
conflictName(n, timestamp) == [n EXCEPT !.stamps = Append(@, timestamp)]

\* Files that other programs (or older versions of this one) leave in a peer
\* directory: a metadata file in a subdirectory, a sidecar, derivatives of the
\* metadata file, legacy metadata, a conflict copy as the documentation names
\* it (unnamed/part_004:88-93), an ordinary user file, and a user file named
\* as a property that every JavaScript object inherits.
MetadataNames == <<"sub/.sync">>
SidecarNames == <<"hosts.sync">>
DerivativeNames == <<".sync.bak">>
LegacyNames == <<".synchrotron", ".synchrotron.old">>
DocumentedConflictNames == <<"notes.sync-conflict.1.txt">>
OrdinaryNames == <<"notasync.txt">>
InheritedNames == <<"constructor">>
OtherNames ==
    MetadataNames \o SidecarNames \o DerivativeNames \o LegacyNames
        \o DocumentedConflictNames \o OrdinaryNames \o InheritedNames

\* names are kept in one fixed order (the order readdirSync yields them in)
NameOrder == PathOrder \o OtherNames
PathIndex(p) == CHOOSE i \in 1..Len(NameOrder) : NameOrder[i] = p
RECURSIVE SeqLess(_, _)
SeqLess(s, t) ==
    IF t = <<>> THEN FALSE
    ELSE IF s = <<>> THEN TRUE
    ELSE IF Head(s) # Head(t) THEN Head(s) < Head(t)
    ELSE SeqLess(Tail(s), Tail(t))
NameLess(a, b) ==
    IF a.path # b.path THEN PathIndex(a.path) < PathIndex(b.path)
    ELSE SeqLess(a.stamps, b.stamps)
RECURSIVE SortNames(_)
SortNames(S) ==
    IF S = {} THEN <<>>
    ELSE LET m == CHOOSE x \in S : \A y \in S \ {x} : NameLess(x, y)
         IN  <<m>> \o SortNames(S \ {m})

\* directories as functions from the names that exist
EmptyDir == [n \in {} |-> NoFile]
\* A file whose permission bits have been cleared carries its mode; the
\* process can neither read nor write it (manifest.ts:85: fs.accessSync
\* with R_OK throws).
Unreadable(f) == [content |-> f.content, mtimeMs |-> f.mtimeMs, mode |-> 0]
Readable(f) == "mode" \notin DOMAIN f
Exists(dir, n) == n \in DOMAIN dir
Put(dir, n, f) == [m \in DOMAIN dir \cup {n} |-> IF m = n THEN f ELSE dir[m]]
Remove(dir, n) == [m \in DOMAIN dir \ {n} |-> dir[m]]

RECURSIVE SelectSeq2(_, _)
SelectSeq2(s, keep) ==
    IF s = <<>> THEN <<>>
    ELSE (IF Head(s) \in keep THEN <<Head(s)>> ELSE <<>>) \o SelectSeq2(Tail(s), keep)

\* ---------------------------------------------------------------- strings

\* String.prototype.startsWith, endsWith, includes
startsWith(s, prefix) == Len(s) >= Len(prefix) /\ SubSeq(s, 1, Len(prefix)) = prefix
endsWith(s, suffix) ==
    Len(s) >= Len(suffix) /\ SubSeq(s, Len(s) - Len(suffix) + 1, Len(s)) = suffix
includes(s, part) ==
    \E i \in 1..(Len(s) - Len(part) + 1) : SubSeq(s, i, i + Len(part) - 1) = part

\* the last position of character c in s, 0 when there is none
RECURSIVE LastIndexFrom(_, _, _)
LastIndexFrom(s, c, i) ==
    IF i = 0 THEN 0
    ELSE IF SubSeq(s, i, i) = c THEN i
    ELSE LastIndexFrom(s, c, i - 1)
LastIndexOf(s, c) == LastIndexFrom(s, c, Len(s))
\* path.basename
basename(s) == SubSeq(s, LastIndexOf(s, "/") + 1, Len(s))
\* path.extname: from the last dot of the basename, unless the basename starts
\* with it
extname(s) ==
    LET b == basename(s)
        dot == LastIndexOf(b, ".")
    IN  IF dot <= 1 THEN "" ELSE SubSeq(b, dot, Len(b))
\* minimatch(relativePath, pattern, { dot: true }) for the patterns in use: a
\* literal path, or a literal followed by one star, which stands for any
\* characters but the separator
minimatch(relativePath, pattern) ==
    IF endsWith(pattern, "*")
    THEN LET prefix == SubSeq(pattern, 1, Len(pattern) - 1)
         IN  /\ startsWith(relativePath, prefix)
             /\ ~includes(SubSeq(relativePath, Len(prefix) + 1, Len(relativePath)), "/")
    ELSE relativePath = pattern
\* engine.ts:285-288: `${base}.conflict-${timestamp}${ext}`, the ISO timestamp
\* written as the number of its millisecond
conflictFileName(relativePath, timestamp) ==
    LET ext == extname(relativePath)
        base == SubSeq(relativePath, 1, Len(relativePath) - Len(ext))
    IN  base \o ".conflict-" \o ToString(timestamp) \o ext
\* the relative path a name stands for: its configured path, renamed once
\* for each conflict stamp
RECURSIVE NameText(_, _)
NameText(path, stamps) ==
    IF stamps = <<>> THEN path
    ELSE conflictFileName(NameText(path, SubSeq(stamps, 1, Len(stamps) - 1)),
                          stamps[Len(stamps)])
RelativePath(n) == NameText(n.path, n.stamps)

\* ------------------------------------------------------------- manifest.ts

\* config/index.ts:116-117
metadataFileName == ".sync"
sidecarExtension == ".sync"

\* manifest.ts:28-50: the built-in rules on the basename
shouldIgnorePath(relativePath) ==
    LET b == basename(relativePath)
    IN  \/ b = metadataFileName
        \/ endsWith(b, sidecarExtension)
        \/ startsWith(b, metadataFileName \o ".")
        \/ b = ".synchrotron"
        \/ startsWith(b, ".synchrotron.")
        \/ includes(b, "sync-conflict")
\* manifest.ts:49: ignorePatterns.some(...)
matchesPattern(relativePath, ignorePatterns) ==
    \E pattern \in ignorePatterns : minimatch(relativePath, pattern)
shouldIgnore(n) ==
    \/ shouldIgnorePath(RelativePath(n))
    \/ matchesPattern(RelativePath(n), set.ignore)

buildManifest(dir) ==
    [n \in {m \in DOMAIN dir : ~shouldIgnore(m) /\ Readable(dir[m])} |->
        [relativePath |-> n,
         size |-> Size(dir[n].content),
         mtimeMs |-> dir[n].mtimeMs,
         hash |-> hashFile(dir[n].content)]]

EntriesOf(manifest, names) == [i \in 1..Len(names) |-> manifest[names[i]]]

\* A manifest is a plain object ({} in buildManifest, the result of
\* JSON.parse in readMetadata), so manifest[relativePath] yields the entry of
\* that path, or else what Object.prototype has under that name (a function,
\* which is truthy and has no hash), or else undefined.
Undefined == [undefined |-> TRUE]
Inherited == [inherited |-> TRUE]
NoHash == <<"undefined">>
ObjectPrototype ==
    {"constructor", "toString", "toLocaleString", "valueOf", "hasOwnProperty",
     "isPrototypeOf", "propertyIsEnumerable"}
Get(manifest, relativePath) ==
    IF relativePath \in DOMAIN manifest THEN manifest[relativePath]
    ELSE IF RelativePath(relativePath) \in ObjectPrototype THEN Inherited
    ELSE Undefined
Truthy(value) == value # Undefined
HashIn(value) == IF value = Inherited THEN NoHash ELSE value.hash

\* manifest.ts:128-157
diffManifests(previousManifest, currentManifest) ==
    LET cur == SortNames(DOMAIN currentManifest)
        prv == SortNames(DOMAIN previousManifest)
        C == DOMAIN currentManifest
        P == DOMAIN previousManifest
        known == {n \in C : Truthy(Get(previousManifest, n))}
        same == {n \in known : HashIn(Get(previousManifest, n)) = currentManifest[n].hash}
    IN  [added |-> EntriesOf(currentManifest, SelectSeq2(cur, C \ known)),
         modified |-> EntriesOf(currentManifest, SelectSeq2(cur, known \ same)),
         unchanged |-> EntriesOf(currentManifest, SelectSeq2(cur, same)),
         deleted |-> EntriesOf(previousManifest,
             SelectSeq2(prv, {n \in P : ~Truthy(Get(currentManifest, n))}))]

\* ------------------------------------------------------------- metadata.ts

\* what readMetadata throws
InvalidMetadata == [thrown |-> "Invalid metadata"]
Threw(value) == "thrown" \in DOMAIN value

\* The text of a metadata file is kept as the members JSON.stringify writes,
\* in the order it writes them: the own properties of the manifest object in
\* insertion order, which is the walk order of buildManifest.
\* JSON.stringify that stops after the first member of the manifest
JSONstringifyFirst(metadata) ==
    LET names == SortNames(DOMAIN metadata.manifest)
    IN  [lastSyncTime |-> metadata.lastSyncTime,
         members |-> [i \in 1..(IF names = <<>> THEN 0 ELSE 1) |->
                         <<names[i], metadata.manifest[names[i]]>>]]
\* metadata.ts:37: JSON.stringify(metadata, null, 2)
JSONstringify(metadata) ==
    LET names == SortNames(DOMAIN metadata.manifest)
    IN  [lastSyncTime |-> metadata.lastSyncTime,
         members |-> [i \in 1..Len(names) |-> <<names[i], metadata.manifest[names[i]]>>]]
\* metadata.ts:18: JSON.parse(raw); the last member of a name is the one kept
JSONparse(raw) ==
    LET at(n) == CHOOSE i \in 1..Len(raw.members) :
                     /\ raw.members[i][1] = n
                     /\ \A j \in 1..Len(raw.members) : raw.members[j][1] = n => j <= i
    IN  [lastSyncTime |-> raw.lastSyncTime,
         manifest |-> [n \in {raw.members[i][1] : i \in 1..Len(raw.members)} |->
                          raw.members[at(n)][2]]]

\* every peer read as having no metadata
readMetadataNone(p) == NoMeta
\* unreadable metadata read as no metadata
readMetadataLenient(p) ==
    IF meta[p] = NoMeta \/ meta[p] = CorruptMeta THEN NoMeta ELSE JSONparse(meta[p])
\* metadata.ts:10-30, reading the files mt
readMetadataFrom(mt, p) ==
    IF mt[p] = NoMeta THEN NoMeta
    ELSE IF mt[p] = CorruptMeta THEN InvalidMetadata
    ELSE JSONparse(mt[p])
readMetadata(p) == readMetadataFrom(meta, p)
\* metadata.ts:35-39: writeFileSync replaces the file
writeMetadata(mt, p, metadata) == [mt EXCEPT ![p] = JSONstringify(metadata)]
\* metadata.ts:44-46
isFreshPeer(p) == readMetadata(p) = NoMeta

\* ------------------------------------------------------------------- time

\* the time stamps the code can read back: modification times on disk and the
\* stamps inside the names on disk, in the stored manifests and in the
\* streaming copies under way
RangeOf(q) == {q[i] : i \in 1..Len(q)}
NameStamps(names) == UNION {RangeOf(n.stamps) : n \in names}
DirStamps(dir) == {dir[n].mtimeMs : n \in DOMAIN dir} \cup NameStamps(DOMAIN dir)
MetaStamps(m) ==
    IF m = NoMeta \/ m = CorruptMeta THEN {}
    ELSE NameStamps({m.members[i][1] : i \in 1..Len(m.members)})
StreamStamps(ss) == NameStamps({s.from[2] : s \in ss} \cup {s.to[2] : s \in ss})
MaxOf(S) == IF S = {} THEN 0 ELSE CHOOSE x \in S : \A y \in S : y <= x
\* Date.now(): the latest stamp in existence
clock ==
    MaxOf(UNION {DirStamps(disk[p]) \cup MetaStamps(meta[p]) : p \in DOMAIN disk}
          \cup StreamStamps(streams))
\* the mtimeMs of a file written at time t
Mtime(t) == IF set.conflictResolution = "last-write-wins" THEN t ELSE 0

\* -------------------------------------------------- engine.ts: the pass state

\* The state a pass threads through its steps: the disk, the files that are
\* not writable, the time, the streaming copies it has scheduled, the
\* exception in flight (NoError when none), the SyncResult and the operations
\* done so far.
NoError == "ok"
EmptyResult ==
    [filesAdded |-> 0, filesDeleted |-> 0, filesModified |-> 0, conflicts |-> 0,
     errors |-> <<>>]
\* a pass starts later than everything that happened before it
StartPass(dt) ==
    [disk |-> disk, locked |-> locked, now |-> clock + 1, dt |-> dt, streams |-> streams,
     scheduled |-> 0, thrown |-> NoError, res |-> EmptyResult, trace |-> <<>>]

Throw(st, message) == [st EXCEPT !.thrown = message]
Bump(st, field) ==
    IF st.thrown # NoError THEN st ELSE [st EXCEPT !.res[field] = @ + 1]
\* catch (err) { result.errors.push(...) }
Catch(st, context) ==
    IF st.thrown = NoError THEN st
    ELSE [st EXCEPT !.res.errors = Append(@, [at |-> context, message |-> st.thrown]),
                    !.thrown = NoError]

\* The body of copyFile and of copyFileDirect.  A source of more than
\* STREAMING_THRESHOLD is handed to streamCopy, which returns at once: the
\* destination is written after the pass (see StreamFinish).  copyFileSync
\* gives the destination the mode of the source.
CopyOp(st, s, d, n) ==
    IF st.thrown # NoError THEN st
    ELSE IF ~Exists(st.disk[s], n) THEN Throw(st, "Permission denied reading")
    ELSE IF Exists(st.disk[d], n) /\ <<d, n>> \in st.locked
    THEN Throw(st, "File locked or permission denied")
    ELSE IF Size(st.disk[s][n].content) > STREAMING_THRESHOLD
    THEN [st EXCEPT !.streams = @ \cup {[from |-> <<s, n>>, to |-> <<d, n>>]},
                    !.scheduled = @ + 1,
                    !.trace = Append(@, [op |-> "stream", from |-> s, to |-> d, name |-> n])]
    ELSE [st EXCEPT !.disk[d] = Put(@, n, [content |-> st.disk[s][n].content,
                                           mtimeMs |-> Mtime(st.now)]),
                    !.locked = IF <<s, n>> \in st.locked THEN @ \cup {<<d, n>>} ELSE @,
                    !.now = @ + st.dt,
                    !.trace = Append(@, [op |-> "copy", from |-> s, to |-> d, name |-> n])]

copyFile(st, srcDir, destDir, relativePath) == CopyOp(st, srcDir, destDir, relativePath)

\* fs.renameSync(destPath, conflictPath): replaces an existing conflictPath;
\* the file keeps its mode under its new name
RenameOp(st, d, n, newName) ==
    IF st.thrown # NoError THEN st
    ELSE IF ~Exists(st.disk[d], n) THEN Throw(st, "ENOENT")
    ELSE [st EXCEPT !.disk[d] = Put(Remove(@, n), newName, st.disk[d][n]),
                    !.locked = IF <<d, n>> \in st.locked
                               THEN (@ \ {<<d, n>>}) \cup {<<d, newName>>}
                               ELSE @ \ {<<d, newName>>},
                    !.now = @ + st.dt,
                    !.trace = Append(@, [op |-> "rename", from |-> d, to |-> d, name |-> n,
                                         replaced |-> Exists(st.disk[d], newName)])]

deleteFile(st, d, n) ==
    IF st.thrown # NoError THEN st
    ELSE IF ~Exists(st.disk[d], n) THEN st
    ELSE IF <<d, n>> \in st.locked
    THEN Throw(st, "Cannot delete (permission denied or locked)")
    ELSE [st EXCEPT !.disk[d] = Remove(@, n),
                    !.now = @ + st.dt,
                    !.trace = Append(@, [op |-> "delete", from |-> d, to |-> d, name |-> n])]

resolveConflict(st, srcDir, destDir, relativePath, strategy) ==
    IF st.thrown # NoError THEN st
    ELSE IF strategy = "last-write-wins"
    THEN IF ~Exists(st.disk[srcDir], relativePath) \/ ~Exists(st.disk[destDir], relativePath)
         THEN Throw(st, "ENOENT")
         ELSE IF st.disk[srcDir][relativePath].mtimeMs >= st.disk[destDir][relativePath].mtimeMs
              THEN copyFile(st, srcDir, destDir, relativePath)
              ELSE st
    ELSE LET conflictPath == conflictName(relativePath, st.now)
             renamed == IF Exists(st.disk[destDir], relativePath)
                        THEN RenameOp(st, destDir, relativePath, conflictPath)
                        ELSE st
         IN  copyFile(renamed, srcDir, destDir, relativePath)

isModifiedAtDest(dest, relativePath) ==
    LET current == Get(dest.currentManifest, relativePath)
        previous == Get(dest.previousManifest, relativePath)
    IN  IF ~Truthy(current) \/ ~Truthy(previous) THEN FALSE
        ELSE HashIn(current) # HashIn(previous)

\* ------------------------------------------------------- engine.ts: syncSet

PeerIds == 1..set.npeers
\* syncSet.paths, in the configured order
PeerSeq == [i \in 1..set.npeers |-> i]
EmptyManifest == [n \in {} |-> NoFile]

\* lines 64-77: manifests, metadata and diffs of one peer, taken at pass start
\* (of a peer whose readMetadata throws nothing is read: the pass ends there)
dirState(p) ==
    LET currentManifest == buildManifest(disk[p])
        previousMetadata == readMetadata(p)
        previousManifest == IF previousMetadata = NoMeta \/ Threw(previousMetadata)
                            THEN EmptyManifest
                            ELSE previousMetadata.manifest
    IN  [currentManifest |-> currentManifest,
         previousManifest |-> previousManifest,
         isFresh |-> previousMetadata = NoMeta,
         diff |-> diffManifests(previousManifest, currentManifest)]
\* syncSet.paths.map(...), for the sets of two and of three paths
dirStates ==
    IF set.npeers = 2 THEN <<dirState(1), dirState(2)>>
    ELSE <<dirState(1), dirState(2), dirState(3)>>

\* lines 90-93
RECURSIVE FreshLoop(_, _, _, _)
FreshLoop(st, i, j, entries) ==
    IF entries = <<>> \/ st.thrown # NoError THEN st
    ELSE FreshLoop(Bump(copyFile(st, i, j, Head(entries).relativePath), "filesAdded"),
                   i, j, Tail(entries))

\* lines 98-112
RECURSIVE AddedLoop(_, _, _, _, _)
AddedLoop(st, dest, i, j, entries) ==
    IF entries = <<>> \/ st.thrown # NoError THEN st
    ELSE LET n == Head(entries).relativePath
             s1 == IF Truthy(Get(dest.currentManifest, n))
                   THEN Bump(resolveConflict(st, i, j, n, set.conflictResolution), "conflicts")
                   ELSE Bump(copyFile(st, i, j, n), "filesAdded")
         IN  AddedLoop(s1, dest, i, j, Tail(entries))

\* lines 115-129
RECURSIVE ModifiedLoop(_, _, _, _, _)
ModifiedLoop(st, dest, i, j, entries) ==
    IF entries = <<>> \/ st.thrown # NoError THEN st
    ELSE LET n == Head(entries).relativePath
             s1 == IF isModifiedAtDest(dest, n)
                   THEN Bump(resolveConflict(st, i, j, n, set.conflictResolution), "conflicts")
                   ELSE Bump(copyFile(st, i, j, n), "filesModified")
         IN  ModifiedLoop(s1, dest, i, j, Tail(entries))

\* lines 133-138
RECURSIVE DeletedLoop(_, _, _, _, _)
DeletedLoop(st, dest, i, j, entries) ==
    IF entries = <<>> \/ st.thrown # NoError THEN st
    ELSE LET n == Head(entries).relativePath
             s1 == IF ~isModifiedAtDest(dest, n)
                   THEN Bump(deleteFile(st, j, n), "filesDeleted")
                   ELSE st
         IN  DeletedLoop(s1, dest, i, j, Tail(entries))

\* the pass enters the try block of the ordered pair (i, j)
EnterPair(st, i, j) == [st EXCEPT !.trace = Append(@, [op |-> "pair", from |-> i, to |-> j])]

\* the pair without the branch for a destination that has no metadata
SyncPairNoFreshBranch(st, ds, i, j) ==
    LET source == ds[i]
        dest == ds[j]
    IN  Catch(DeletedLoop(
                  ModifiedLoop(
                      AddedLoop(EnterPair(st, i, j), dest, i, j, source.diff.added),
                      dest, i, j, source.diff.modified),
                  dest, i, j, source.diff.deleted),
              <<i, j>>)
\* lines 84-142: one ordered pair, inside its try/catch
SyncPair(st, ds, i, j) ==
    LET source == ds[i]
        dest == ds[j]
        st0 == EnterPair(st, i, j)
        body ==
            IF dest.isFresh
            THEN FreshLoop(st0, i, j,
                     EntriesOf(source.currentManifest, SortNames(DOMAIN source.currentManifest)))
            ELSE DeletedLoop(
                     ModifiedLoop(
                         AddedLoop(st0, dest, i, j, source.diff.added),
                         dest, i, j, source.diff.modified),
                     dest, i, j, source.diff.deleted)
    IN  Catch(body, <<i, j>>)

\* the pair loop leaving at the first pair that records an error
RECURSIVE PairLoopUntilError(_, _, _)
PairLoopUntilError(st, ds, k) ==
    LET n == set.npeers
        i == (k \div n) + 1
        j == (k % n) + 1
    IN  IF k >= n * n \/ st.res.errors # <<>> THEN st
        ELSE PairLoopUntilError(IF i = j THEN st ELSE SyncPair(st, ds, i, j), ds, k + 1)
\* lines 80-144: for i, for j, i # j
RECURSIVE PairLoop(_, _, _)
PairLoop(st, ds, k) ==
    LET n == set.npeers
        i == (k \div n) + 1
        j == (k % n) + 1
    IN  IF k >= n * n THEN st
        ELSE PairLoop(IF i = j THEN st ELSE SyncPair(st, ds, i, j), ds, k + 1)

\* the metadata of a peer written from its manifest at pass start
staleMetadata(st, syncTime, p) ==
    [lastSyncTime |-> syncTime, manifest |-> buildManifest(disk[p])]
\* lines 149-153: the metadata written for a peer when the pairs are done
updatedMetadata(st, syncTime, p) ==
    [lastSyncTime |-> syncTime, manifest |-> buildManifest(st.disk[p])]

\* lines 147-155: the metadata of every peer is written
RECURSIVE UpdateMetadata(_, _, _, _)
UpdateMetadata(mt, st, syncTime, ps) ==
    IF ps = <<>> THEN mt
    ELSE UpdateMetadata(writeMetadata(mt, Head(ps), updatedMetadata(st, syncTime, Head(ps))),
                        st, syncTime, Tail(ps))

\* what a pass hands back when it ends before its first file operation; op
\* tells how the call ended ("syncSetThrew": it threw)
EndEarly(res, op) ==
    [disk |-> disk, meta |-> meta, sidecar |-> sidecar, streams |-> streams,
     locked |-> locked, scheduled |-> 0, now |-> clock, result |-> res,
     op |-> op, trace |-> <<>>]

\* lines 57-62: the first configured directory that does not exist
FirstMissing == CHOOSE p \in missing : \A q \in missing : p <= q

\* lines 42-158
syncSet(dt) ==
    LET st == PairLoop(StartPass(dt), dirStates, 0)
        syncTime == st.now
    IN  IF missing # {}
        THEN EndEarly([EmptyResult EXCEPT !.errors =
                          <<[at |-> <<FirstMissing>>, message |-> "Directory does not exist"]>>],
                      "syncSet")
        ELSE IF \E p \in PeerIds : Threw(readMetadata(p))
        THEN EndEarly(EmptyResult, "syncSetThrew")
        ELSE [disk |-> st.disk,
              meta |-> UpdateMetadata(meta, st, syncTime, PeerSeq),
              sidecar |-> sidecar,
              streams |-> st.streams,
              locked |-> st.locked,
              scheduled |-> st.scheduled,
              now |-> st.now,
              result |-> st.res,
              op |-> "syncSet",
              trace |-> st.trace]

\* lines 80-144 with the process gone after the pairs before pair number
\* stop: the later pairs do not run
RECURSIVE PairLoopTo(_, _, _, _)
PairLoopTo(st, ds, k, stop) ==
    LET n == set.npeers
        i == (k \div n) + 1
        j == (k % n) + 1
    IN  IF k >= stop THEN st
        ELSE PairLoopTo(IF i = j THEN st ELSE SyncPair(st, ds, i, j), ds, k + 1, stop)

\* a pass that writes the metadata of source and destination at the end of
\* every pair
RECURSIVE MetadataPerPair(_, _, _)
MetadataPerPair(dt, ds, stop) ==
    IF stop = 0 THEN meta
    ELSE LET st == PairLoopTo(StartPass(dt), ds, 0, stop)
             i == ((stop - 1) \div set.npeers) + 1
             j == ((stop - 1) % set.npeers) + 1
         IN  UpdateMetadata(MetadataPerPair(dt, ds, stop - 1), st, st.now, <<i, j>>)
syncSetKilledMetadataPerPair(dt, stop) ==
    LET st == PairLoopTo(StartPass(dt), dirStates, 0, stop)
    IN  [disk |-> st.disk, meta |-> MetadataPerPair(dt, dirStates, stop),
         sidecar |-> sidecar, streams |-> st.streams, locked |-> st.locked,
         scheduled |-> st.scheduled, now |-> st.now, result |-> st.res,
         op |-> "syncSetKilled", trace |-> st.trace]

\* lines 42-144: the process is gone (killed, power lost) when the pairs
\* before pair number stop are done; with stop = npeers * npeers every pair
\* is done and only lines 146-155 have not run.  What the pairs wrote is on
\* disk, a streaming copy they scheduled is gone with the process.
syncSetKilled(dt, stop) ==
    LET st == PairLoopTo(StartPass(dt), dirStates, 0, stop)
    IN  [disk |-> st.disk, meta |-> meta, sidecar |-> sidecar, streams |-> streams,
         locked |-> st.locked, scheduled |-> 0, now |-> st.now, result |-> st.res,
         op |-> "syncSetKilled", trace |-> st.trace]


\* --------------------------------------------------- engine.ts: syncFileSet

\* each peer of a file set is one file; peer p's file is disk[p][TheFile] and
\* its conflict copies are its siblings in disk[p]
TheFile == Canon(PathOrder[1])

\* watcher.ts:364: JSON.stringify(metadata, null, 2), the members of the
\* object literal of the caller in their order
JSONstringifySidecar(metadata) ==
    [members |-> <<<<"hash", metadata.hash>>, <<"mtimeMs", metadata.mtimeMs>>,
                   <<"size", metadata.size>>, <<"lastSyncTime", metadata.lastSyncTime>>>>]
Member(raw, key) ==
    raw.members[CHOOSE i \in 1..Len(raw.members) : raw.members[i][1] = key][2]
\* watcher.ts:344: JSON.parse(raw)
JSONparseSidecar(raw) ==
    [hash |-> Member(raw, "hash"), mtimeMs |-> Member(raw, "mtimeMs"),
     size |-> Member(raw, "size"), lastSyncTime |-> Member(raw, "lastSyncTime")]
\* a sidecar that is there and cannot be used is read as no sidecar (the
\* catch and the final return null of readFileMetadata)
readFileMetadataFrom(sc, p) ==
    IF sc[p] = NoMeta \/ sc[p] = CorruptMeta THEN NoMeta ELSE JSONparseSidecar(sc[p])
readFileMetadata(p) == readFileMetadataFrom(sidecar, p)
writeFileMetadata(sc, p, metadata) == [sc EXCEPT ![p] = JSONstringifySidecar(metadata)]

copyFileDirect(st, srcPeer, destPeer) == CopyOp(st, srcPeer, destPeer, TheFile)

\* lines 332-358
peerStates ==
    [p \in PeerIds |->
        LET exists == Exists(disk[p], TheFile)
            metadata == readFileMetadata(p)
            currentHash == IF exists THEN hashFile(disk[p][TheFile].content) ELSE NoFile
        IN  [exists |-> exists,
             metadata |-> metadata,
             currentHash |-> currentHash,
             currentMtimeMs |-> IF exists THEN disk[p][TheFile].mtimeMs ELSE 0,
             changed |-> exists /\ (metadata = NoMeta \/ metadata.hash # currentHash)]]

\* every peer whose file exists taken as changed
changedPeersExisting(peers) == SelectSeq2(PeerSeq, {p \in PeerIds : peers[p].exists})
changedPeers(peers) == SelectSeq2(PeerSeq, {p \in PeerIds : peers[p].changed})

\* lines 374-388 (counting), 399-408 and 426-435: copy the winner to the others
RECURSIVE CopyToOthers(_, _, _, _, _)
CopyToOthers(st, peers, winner, dests, single) ==
    IF dests = <<>> THEN st
    ELSE LET dest == Head(dests)
             copied == copyFileDirect(st, winner, dest)
             counted == IF single /\ ~peers[dest].exists
                        THEN Bump(copied, "filesAdded")
                        ELSE Bump(copied, "filesModified")
         IN  CopyToOthers(IF dest = winner THEN st ELSE Catch(counted, <<winner, dest>>),
                          peers, winner, Tail(dests), single)

\* lines 395-397: reduce with a strict comparison
RECURSIVE lastWriteWinner(_, _, _)
lastWriteWinner(peers, best, rest) ==
    IF rest = <<>> THEN best
    ELSE lastWriteWinner(peers,
             IF peers[Head(rest)].currentMtimeMs > peers[best].currentMtimeMs
             THEN Head(rest) ELSE best,
             Tail(rest))

\* lines 413-424
RECURSIVE RenameLosers(_, _)
RenameLosers(st, losers) ==
    IF losers = <<>> THEN st
    ELSE RenameLosers(
             Catch(RenameOp(st, Head(losers), TheFile, conflictName(TheFile, st.now)),
                   <<Head(losers), Head(losers)>>),
             Tail(losers))

\* lines 440-456
RECURSIVE UpdateSidecars(_, _, _, _)
UpdateSidecars(sc, st, syncTime, ps) ==
    IF ps = <<>> THEN sc
    ELSE LET p == Head(ps)
             next == IF Exists(st.disk[p], TheFile)
                     THEN writeFileMetadata(sc, p,
                              [hash |-> hashFile(st.disk[p][TheFile].content),
                               mtimeMs |-> st.disk[p][TheFile].mtimeMs,
                               size |-> Size(st.disk[p][TheFile].content),
                               lastSyncTime |-> syncTime])
                     ELSE sc
         IN  UpdateSidecars(next, st, syncTime, Tail(ps))

\* lines 309-459
syncFileSet(dt) ==
    LET peers == peerStates
        changed == changedPeers(peers)
        st0 == StartPass(dt)
        syncTime == st0.now
        conflicted == [st0 EXCEPT !.res.conflicts = @ + Len(changed)]
        st == IF Len(changed) = 1
              THEN CopyToOthers(st0, peers, changed[1], PeerSeq, TRUE)
              ELSE IF set.conflictResolution = "last-write-wins"
              THEN CopyToOthers(conflicted, peers,
                       lastWriteWinner(peers, Head(changed), Tail(changed)), PeerSeq, FALSE)
              ELSE CopyToOthers(RenameLosers(conflicted, Tail(changed)),
                       peers, Head(changed), PeerSeq, FALSE)
    IN  IF Len(changed) = 0
        THEN EndEarly(EmptyResult, "syncFileSet")
        ELSE [disk |-> st.disk, meta |-> meta,
              sidecar |-> UpdateSidecars(sidecar, st, syncTime, PeerSeq),
              streams |-> st.streams, locked |-> st.locked,
              scheduled |-> st.scheduled, now |-> st.now,
              result |-> st.res,
              op |-> "syncFileSet",
              trace |-> st.trace]

\* -------------------------------------------------------------- watcher.ts

NoEvent == [none |-> TRUE]
\* watcher.ts:110-113
WatcherShouldIgnore(filePath) == basename(filePath) = metadataFileName
\* watcher.ts:117-126: the fs.watch callback of a running watcher
fsWatchCallback(dirPath, filename) ==
    IF WatcherShouldIgnore(filename) THEN NoEvent
    ELSE [type |-> "rename", filePath |-> <<dirPath, filename>>, dirPath |-> dirPath]

\* the metadata file of a directory peer, as an entry of its directory
MetadataFile == [path |-> metadataFileName, stamps |-> <<>>]
\* watcher.ts:280-306: every file under the directory with its mtimeMs, the
\* metadata file included (the walk filters nothing).  The mtime of the
\* metadata file is counted in writes: each write of a pass is later than
\* the one before.
takeSnapshot(dk, mt, written, p) ==
    [n \in DOMAIN dk[p] \cup (IF mt[p] = NoMeta THEN {} ELSE {MetadataFile}) |->
        IF n = MetadataFile THEN written ELSE dk[p][n].mtimeMs]
\* watcher.ts:170-199: the paths for which the interval callback emits
\* "change": new, modified, deleted
pollChanges(previousSnapshot, currentSnapshot) ==
    {n \in DOMAIN currentSnapshot :
        n \notin DOMAIN previousSnapshot \/ currentSnapshot[n] # previousSnapshot[n]}
    \cup {n \in DOMAIN previousSnapshot : n \notin DOMAIN currentSnapshot}

\* ------------------------------------------------------------ the machine

Strategies == {"keep-both", "last-write-wins"}
\* the ignore globs a user may add to a directory set
IgnorePatterns == {"G", "F*"}
SetTypes == {"directory", "file"}
PeerCounts == {2, 3}
\* How far the clock moves with a write of the user (0: in the millisecond of
\* the last event).  Only last-write-wins reads modification times.
WriteTicks == IF set.conflictResolution = "last-write-wins" THEN {0, 1} ELSE {1}
\* How far the clock moves with each file operation of a pass.  The times of
\* a pass's operations are read back only from the names made under
\* keep-both, and two such names can meet only when one destination has two
\* sources, that is with three peers or more.
PassTicks == IF set.npeers > 2 /\ set.conflictResolution = "keep-both" THEN {0, 1} ELSE {1}
\* what the environment writes: any content to the file F, one content to
\* the second path
EditContents == {"a", "b", "L"}
ContentsFor(f) == IF f = PathOrder[1] THEN EditContents ELSE {"a"}

\* the paths the environment writes: both paths in a directory set of two
\* peers, the one file F otherwise
PathsOf(s) == IF s.type = "directory" /\ s.npeers = 2
              THEN {PathOrder[i] : i \in 1..Len(PathOrder)}
              ELSE {PathOrder[1]}

\* what a pass started from
NoPass == [disk |-> <<>>, meta |-> <<>>, sidecar |-> <<>>, streams |-> {},
           missing |-> {}, locked |-> {}, lastOp |-> "none", result |-> EmptyResult,
           before |-> <<>>]
\* before: the directories as a pass that was stopped had found them
Snapshot == [disk |-> disk, meta |-> meta, sidecar |-> sidecar, streams |-> streams,
             missing |-> missing, locked |-> locked, lastOp |-> lastOp, result |-> result,
             before |-> IF lastOp = "syncSetKilled" THEN pre.disk ELSE <<>>]

BaseFile == [content |-> "o", mtimeMs |-> 0]
\* a peer at rest holds every path of the set
BaseDir == [n \in {Canon(f) : f \in PathsOf(set)} |-> BaseFile]

\* The peers that have no metadata yet when the run starts: none (a set at
\* rest after a pass over peers that all hold the same files), all (a newly
\* configured set), or the one peer, first or last in the configured order,
\* that has just been added to a set at rest.  A peer without metadata
\* starts empty.  The directory of a peer just added may not exist yet.
Starts == {"rest", "new", "first-added", "last-added"}
FaultStarts == {"rest", "last-missing"}
FreshAtStart(start, n) ==
    CASE start = "rest" -> {}
      [] start = "new" -> 1..n
      [] start = "first-added" -> {1}
      [] start = "last-added" -> {n}
      [] start = "last-missing" -> {n}

\* ------------------------------------------- the daemon (daemon/runner.ts)

\* runner.ts:104: how long a sync set must stay quiet before its pass runs
DEBOUNCE_MS == 1000
\* config.syncSets: the set of the run at index 0 and, at index 1, a second
\* set whose files are not modelled
SetIndexes == {0, 1}
\* how far the time moves in one step
Waits == {250, 500}

\* a Map of JavaScript
EmptyMap == [k \in {} |-> 0]
MapGet(map, k) == IF k \in DOMAIN map THEN map[k] ELSE 0
MapSet(map, k, v) == [x \in DOMAIN map \cup {k} |-> IF x = k THEN v ELSE map[x]]
MapDelete(map, k) == [x \in DOMAIN map \ {k} |-> map[x]]

\* The timers of the event loop are numbered from 1 in the order of their
\* creation, so that no timer is falsy.
NoTimers == [timers |-> {}, debounceTimers |-> EmptyMap, created |-> 0]
NoNotifications ==
    [quiet |-> [index \in SetIndexes |-> DEBOUNCE_MS],
     passes |-> [index \in SetIndexes |-> 0],
     burst |-> [index \in SetIndexes |-> 0],
     count |-> 0,
     running |-> FALSE,
     fsWatchers |-> <<>>,
     pollTimers |-> <<>>,
     snapshots |-> <<>>,
     written |-> 0]

\* setTimeout(callback, ms): a new timer of the event loop
setTimeout(sc, index, ms) ==
    [sc EXCEPT !.timers = @ \cup {[id |-> sc.created + 1, index |-> index, remaining |-> ms]},
               !.created = @ + 1]
\* clearTimeout(timer)
clearTimeout(sc, timer) == [sc EXCEPT !.timers = {t \in @ : t.id # timer}]

\* scheduleSyncSet that leaves the pending timer running
scheduleSyncSetUncleared(sc, index) ==
    LET key == ToString(index)
        timed == setTimeout(sc, index, DEBOUNCE_MS)
    IN  [timed EXCEPT !.debounceTimers = MapSet(@, key, timed.created)]

\* runner.ts:116-152
scheduleSyncSet(sc, index) ==
    LET key == ToString(index)
        existing == MapGet(sc.debounceTimers, key)
        cleared == IF existing # 0 THEN clearTimeout(sc, existing) ELSE sc
        timed == setTimeout(cleared, index, DEBOUNCE_MS)
    IN  [timed EXCEPT !.debounceTimers = MapSet(@, key, timed.created)]

\* ------------------ the daemon's life cycle (cli/commands/start.ts, pid.ts,
\* process.ts, runForeground)

\* The PID file holds String(pid); NoPid is readPidFile's null.
NoPid == [null |-> TRUE]
NoPidFile == [exists |-> FALSE]
\* tree: the directories and files of the file system around one peer whose
\* files lie in subdirectories (NoTree when the peers hold their files in
\* their roots)
NoTree == [dirPath |-> "", dirs |-> {}, files |-> {}, before |-> {}, deleted |-> ""]
NoProcesses == [procs |-> <<>>, pidFile |-> NoPidFile, tree |-> NoTree]

\* ---------------------------------- engine.ts: deleteFile below the peer root

\* The peer root as the file system knows it, the spellings under which the
\* configuration may name it (config/index.ts:211-219 takes any non-empty
\* string), and what lies around it.
Root == "/p/r"
DirPaths == {"/p/r", "/p/r/"}
Outside == {"/p", "/p/q"}
\* The files of the peer, relative to its root, and a directory that holds
\* no file.
NestedFiles == {"d/e/f", "d/e/h", "d/g", "k"}
NestedDirs == {"d", "d/e", "d/x"}
EmptyDirs == {"d/x"}

\* path.join(dirPath, relativePath) for an absolute dirPath: normalised, so
\* without the slash that may end dirPath
pathJoin(dirPath, relativePath) ==
    (IF endsWith(dirPath, "/") THEN SubSeq(dirPath, 1, Len(dirPath) - 1) ELSE dirPath)
        \o "/" \o relativePath
\* path.dirname of a normalised absolute path
dirname(filePath) ==
    LET slash == LastIndexOf(filePath, "/")
    IN  IF slash <= 1 THEN "/" ELSE SubSeq(filePath, 1, slash - 1)
\* fs.readdirSync(parent)
readdirSync(tree, parent) == {x \in tree.dirs \cup tree.files : dirname(x) = parent}

\* a clean-up that removes every directory above the file, whatever it holds
RECURSIVE cleanUpAll(_, _, _)
cleanUpAll(tree, dirPath, parent) ==
    IF parent = "/" \/ parent \notin tree.dirs THEN tree
    ELSE cleanUpAll([tree EXCEPT !.dirs = @ \ {parent},
                                 !.files = {x \in @ : dirname(x) # parent}],
                    dirPath, dirname(parent))
\* lines 243-258: while (parent !== dirPath), a comparison of strings; a
\* parent that cannot be read ends the loop
RECURSIVE cleanUp(_, _, _)
cleanUp(tree, dirPath, parent) ==
    IF parent = dirPath THEN tree
    ELSE IF parent \notin tree.dirs THEN tree
    ELSE IF readdirSync(tree, parent) = {}
    THEN cleanUp([tree EXCEPT !.dirs = @ \ {parent}], dirPath, dirname(parent))
    ELSE tree
\* lines 232-260, for a file that can be written
deleteFileAt(tree, dirPath, relativePath) ==
    LET filePath == pathJoin(dirPath, relativePath)
    IN  IF filePath \notin tree.files THEN tree
        ELSE [cleanUp([tree EXCEPT !.files = @ \ {filePath}], dirPath, dirname(filePath))
                 EXCEPT !.before = tree.dirs, !.deleted = filePath]

\* The trees in which deleteFile runs: its destination is never fresh
\* (lines 88-95 leave the pair before the deletions), so the metadata file
\* is in the root; the directories are those of the files and the empty
\* ones.
TreeOf(dirPath, files, empties) ==
    [dirPath |-> dirPath,
     dirs |-> {Root} \cup Outside
              \cup {pathJoin(Root, d) : d \in
                       {nd \in NestedDirs :
                           \/ nd \in empties
                           \/ \E f \in files \cup empties : startsWith(f, nd \o "/")}},
     files |-> {pathJoin(Root, f) : f \in files \cup {metadataFileName}},
     before |-> {},
     deleted |-> ""]

\* pid.ts: writePidFile, readPidFile (parseInt of the file's text),
\* removePidFile
Digits == <<"1", "2", "3", "4", "5", "6", "7", "8">>
parseInt(text) ==
    IF \E i \in 1..Len(Digits) : Digits[i] = text
    THEN [pid |-> CHOOSE i \in 1..Len(Digits) : Digits[i] = text]
    ELSE NoPid
writePidFile(o, pid) == [o EXCEPT !.pidFile = [content |-> ToString(pid)]]
readPidFile(o) == IF o.pidFile = NoPidFile THEN NoPid ELSE parseInt(o.pidFile.content)
removePidFile(o) == [o EXCEPT !.pidFile = NoPidFile]

\* process.ts: isProcessRunning (process.kill(pid, 0))
isProcessRunning(o, pid) == pid \in DOMAIN o.procs /\ o.procs[pid].alive
\* process.ts: killProcess.  The caller waits until the process is gone.  A
\* daemon past its startup has its SIGTERM handler (runner.ts:87-99), which
\* removes the PID file; any other process just ends.
killProcess(o, pid) ==
    IF ~isProcessRunning(o, pid) THEN o
    ELSE LET gone == [o EXCEPT !.procs[pid].alive = FALSE]
         IN  IF o.procs[pid].kind = "daemon" /\ o.procs[pid].pc = "running"
             THEN removePidFile(gone) ELSE gone
\* process.ts: findSynchrotronProcesses, the live processes that run
\* daemon/entry, the caller excepted
findSynchrotronProcesses(o, self) ==
    {pid \in DOMAIN o.procs \ {self} : o.procs[pid].alive /\ o.procs[pid].kind = "daemon"}
RECURSIVE KillAll(_, _)
KillAll(o, pids) ==
    IF pids = {} THEN o
    ELSE LET pid == CHOOSE x \in pids : \A y \in pids : x <= y
         IN  KillAll(killProcess(o, pid), pids \ {pid})
killAllSynchrotronProcesses(o, self) == KillAll(o, findSynchrotronProcesses(o, self))

\* a new process of the machine
Spawn(o, kind) ==
    [o EXCEPT !.procs = Append(@, [kind |-> kind, pc |-> "read", alive |-> TRUE,
                                   existingPid |-> NoPid])]
\* the process goes on to its next step
Goto(o, self, pc) == [o EXCEPT !.procs[self].pc = pc]

InitFiles(types, counts, starts, edits) ==
    /\ set \in [type : types, conflictResolution : Strategies, npeers : counts,
                 ignore : {{}}]
    /\ \E start \in starts :
          LET fresh == FreshAtStart(start, set.npeers)
          IN  /\ disk = [p \in 1..set.npeers |-> IF p \in fresh THEN EmptyDir ELSE BaseDir]
              /\ meta = [p \in 1..set.npeers |->
                            IF p \notin fresh /\ set.type = "directory"
                            THEN JSONstringify([lastSyncTime |-> 0,
                                                manifest |-> buildManifest(BaseDir)])
                            ELSE NoMeta]
              /\ sidecar = [p \in 1..set.npeers |->
                               IF p \notin fresh /\ set.type = "file"
                               THEN JSONstringifySidecar(
                                        [hash |-> hashFile(BaseFile.content), mtimeMs |-> 0,
                                         size |-> Size(BaseFile.content), lastSyncTime |-> 0])
                               ELSE NoMeta]
              /\ missing = IF start = "last-missing" /\ set.type = "directory"
                           THEN fresh ELSE {}
    /\ streams = {}
    /\ locked = {}
    /\ event = NoEvent
    /\ budget = edits
    /\ scheduled = 0
    /\ pre = NoPass
    /\ result = EmptyResult
    /\ trace = <<>>
    /\ lastOp = "init"
    /\ sched = NoTimers
    /\ watch = NoNotifications
InitSet(types, counts, starts, edits) ==
    /\ InitFiles(types, counts, starts, edits)
    /\ os = NoProcesses

External(newDisk) ==
    /\ budget > 0
    /\ budget' = budget - 1
    /\ disk' = newDisk
    /\ pre' = NoPass
    /\ result' = EmptyResult
    /\ trace' = <<>>
    /\ UNCHANGED <<set, meta, sidecar, streams, missing, locked, scheduled>>
    /\ UNCHANGED daemonVars

OnDisk(c) == \E p \in PeerIds : \E n \in DOMAIN disk[p] : disk[p][n].content = c

\* the user writes a file of a peer; "a" and "b" are interchangeable, so "b"
\* is written only once "a" is somewhere on disk
Write ==
    /\ budget > 0
    /\ \E p \in PeerIds \ missing, f \in PathsOf(set), adv \in WriteTicks :
       \E c \in ContentsFor(f) :
          /\ <<p, Canon(f)>> \notin locked
          /\ Exists(disk[p], Canon(f)) => disk[p][Canon(f)].content # c
          /\ c = "b" => OnDisk("a")
          /\ External([disk EXCEPT ![p] = Put(@, Canon(f),
                          [content |-> c, mtimeMs |-> Mtime(clock + adv)])])
    /\ lastOp' = "write"
    /\ UNCHANGED event

\* the user deletes a file of a peer
Delete ==
    /\ budget > 0
    /\ \E p \in PeerIds, f \in PathsOf(set) :
          /\ Exists(disk[p], Canon(f))
          /\ <<p, Canon(f)>> \notin locked
          /\ External([disk EXCEPT ![p] = Remove(@, Canon(f))])
    /\ lastOp' = "delete"
    /\ UNCHANGED event

\* Another program leaves a file with one of the other names in a peer
\* directory, and the watcher of that directory sees it.
Touch ==
    /\ budget > 0
    /\ \E p \in PeerIds \ missing, i \in 1..Len(OtherNames), adv \in WriteTicks :
          /\ ~Exists(disk[p], Canon(OtherNames[i]))
          /\ External([disk EXCEPT ![p] = Put(@, Canon(OtherNames[i]),
                          [content |-> "a", mtimeMs |-> Mtime(clock + adv)])])
          /\ event' = fsWatchCallback(p, OtherNames[i])
    /\ lastOp' = "touch"

\* a change of the environment that leaves the files' contents alone
Fault ==
    /\ budget > 0
    /\ budget' = budget - 1
    /\ UNCHANGED <<set, disk, sidecar, streams, event, scheduled, pre, result, trace>>
    /\ UNCHANGED daemonVars

\* a file of a peer becomes read-only, or is held open by another program
Lock ==
    /\ \E p \in PeerIds, f \in PathsOf(set) :
          /\ Exists(disk[p], Canon(f))
          /\ <<p, Canon(f)>> \notin locked
          /\ locked' = locked \cup {<<p, Canon(f)>>}
    /\ Fault
    /\ lastOp' = "lock"
    /\ UNCHANGED <<meta, missing>>

\* the file is writable again
Unlock ==
    /\ \E l \in locked : locked' = locked \ {l}
    /\ Fault
    /\ lastOp' = "unlock"
    /\ UNCHANGED <<meta, missing>>

\* the permission bits of a file of a peer are cleared (chmod 000): it can no
\* longer be read or written
Chmod ==
    /\ budget > 0
    /\ budget' = budget - 1
    /\ \E p \in PeerIds, f \in PathsOf(set) :
          /\ Exists(disk[p], Canon(f))
          /\ Readable(disk[p][Canon(f)])
          /\ disk' = [disk EXCEPT ![p] = Put(@, Canon(f), Unreadable(@[Canon(f)]))]
          /\ locked' = locked \cup {<<p, Canon(f)>>}
    /\ pre' = NoPass
    /\ result' = EmptyResult
    /\ trace' = <<>>
    /\ lastOp' = "chmod"
    /\ UNCHANGED <<set, meta, sidecar, streams, missing, event, scheduled>>
    /\ UNCHANGED daemonVars

\* the metadata file of a directory peer is damaged
Corrupt ==
    /\ set.type = "directory"
    /\ \E p \in PeerIds :
          /\ meta[p] \notin {NoMeta, CorruptMeta}
          /\ meta' = [meta EXCEPT ![p] = CorruptMeta]
    /\ Fault
    /\ lastOp' = "corrupt"
    /\ UNCHANGED <<locked, missing>>

\* the sidecar of a file peer is damaged
CorruptSidecar ==
    /\ set.type = "file"
    /\ \E p \in PeerIds :
          /\ sidecar[p] \notin {NoMeta, CorruptMeta}
          /\ sidecar' = [sidecar EXCEPT ![p] = CorruptMeta]
    /\ budget > 0
    /\ budget' = budget - 1
    /\ lastOp' = "corruptSidecar"
    /\ UNCHANGED <<set, disk, meta, streams, missing, locked, event, scheduled,
                   pre, result, trace>>
    /\ UNCHANGED daemonVars

\* the user adds an ignore pattern to the configuration of a directory set
AddIgnore ==
    /\ budget > 0
    /\ set.type = "directory"
    /\ \E pattern \in IgnorePatterns \ set.ignore :
          set' = [set EXCEPT !.ignore = @ \cup {pattern}]
    /\ budget' = budget - 1
    /\ lastOp' = "ignore"
    /\ UNCHANGED <<disk, meta, sidecar, streams, missing, locked, event, scheduled,
                   pre, result, trace>>
    /\ UNCHANGED daemonVars

\* the user creates the directory of a peer
Mkdir ==
    /\ \E p \in missing : missing' = missing \ {p}
    /\ Fault
    /\ lastOp' = "mkdir"
    /\ UNCHANGED <<meta, locked>>

\* a pass that throws returns no SyncResult
PassWrites(out) ==
    /\ scheduled + out.scheduled <= MaxStreams
    /\ lastOp' = out.op
    /\ scheduled' = scheduled + out.scheduled
    /\ disk' = out.disk
    /\ meta' = out.meta
    /\ sidecar' = out.sidecar
    /\ streams' = out.streams
    /\ locked' = out.locked
    /\ result' = out.result
    /\ trace' = out.trace
    /\ pre' = Snapshot
Pass(out) ==
    /\ PassWrites(out)
    /\ UNCHANGED <<set, missing, event, budget>>

SyncSetPass ==
    /\ set.type = "directory"
    /\ \E dt \in PassTicks : Pass(syncSet(dt))
    /\ UNCHANGED daemonVars

SyncFileSetPass ==
    /\ set.type = "file"
    /\ \E dt \in PassTicks : Pass(syncFileSet(dt))
    /\ UNCHANGED daemonVars

\* a directory pass that read every metadata file, started its pairs and did
\* not reach its end; stops are counted with the changes of the environment
SyncSetKilled ==
    /\ set.type = "directory"
    /\ missing = {}
    /\ \A p \in PeerIds : ~Threw(readMetadata(p))
    /\ budget > 0
    /\ budget' = budget - 1
    /\ \E dt \in PassTicks, stop \in 1..(set.npeers * set.npeers) :
          PassWrites(syncSetKilled(dt, stop))
    /\ UNCHANGED <<set, missing, event>>
    /\ UNCHANGED daemonVars

\* engine.ts:221-227: a scheduled streaming copy runs to its end.  With its
\* source gone or unreadable the read fails and the write stream has, or has
\* not, created an empty destination.
StreamFinish ==
    /\ \E s \in streams :
          LET sp == s.from[1]
              sn == s.from[2]
              dp == s.to[1]
              dn == s.to[2]
          IN  /\ streams' = streams \ {s}
              /\ IF Exists(disk[sp], sn) /\ Readable(disk[sp][sn])
                 THEN disk' = [disk EXCEPT ![dp] = Put(@, dn,
                                  [content |-> disk[sp][sn].content, mtimeMs |-> Mtime(clock)])]
                 ELSE \/ disk' = disk
                      \/ disk' = [disk EXCEPT ![dp] = Put(@, dn,
                                     [content |-> "", mtimeMs |-> Mtime(clock)])]
    /\ lastOp' = "stream"
    /\ pre' = NoPass
    /\ result' = EmptyResult
    /\ trace' = <<>>
    /\ UNCHANGED <<set, meta, sidecar, missing, locked, event, budget, scheduled>>
    /\ UNCHANGED daemonVars

\* runner.ts:226-229: the watcher of a sync set emits "change"
Notify ==
    /\ watch.count < MaxNotifications
    /\ \E index \in SetIndexes :
          /\ sched' = scheduleSyncSet(sched, index)
          /\ watch' = [watch EXCEPT
                 !.burst[index] = IF watch.quiet[index] < DEBOUNCE_MS THEN @ + 1 ELSE 1,
                 !.quiet[index] = 0,
                 !.passes[index] = 0,
                 !.count = @ + 1]
    /\ lastOp' = "change"
    /\ UNCHANGED <<set, disk, meta, sidecar, streams, missing, locked, event, budget,
                   scheduled, pre, result, trace, os>>

\* The time moves on, never past a timer that is due.
Wait ==
    /\ \E ms \in Waits :
          /\ \A t \in sched.timers : t.remaining >= ms
          /\ \E index \in SetIndexes : watch.quiet[index] < DEBOUNCE_MS
          /\ sched' = [sched EXCEPT
                 !.timers = {[t EXCEPT !.remaining = @ - ms] : t \in @}]
          /\ watch' = [watch EXCEPT
                 !.quiet = [index \in SetIndexes |->
                               IF @[index] + ms < DEBOUNCE_MS THEN @[index] + ms
                               ELSE DEBOUNCE_MS]]
    /\ lastOp' = "wait"
    /\ UNCHANGED <<set, disk, meta, sidecar, streams, missing, locked, event, budget,
                   scheduled, pre, result, trace, os>>

\* runner.ts:213-215 run once for every "change" a callback emits
RECURSIVE scheduleEach(_, _, _)
scheduleEach(sc, index, times) ==
    IF times = 0 THEN sc ELSE scheduleEach(scheduleSyncSet(sc, index), index, times - 1)

\* watcher.ts:160-162, 204: the first snapshot of the directory and its
\* interval timer; failed is the path whose fs.watch gave way to this timer
\* (the directory itself when the watcher polls by configuration)
startPolling(w, dirPath, failed) ==
    [w EXCEPT !.snapshots = (dirPath :> takeSnapshot(disk, meta, w.written, dirPath)) @@ @,
              !.pollTimers = Append(@, [dirPath |-> dirPath, failed |-> failed])]

\* watcher.ts:115-136: fs.watch throws for the paths of throwing, the catch
\* reports it; a watcher that is set up is pushed.  fallbacks are the paths
\* of the error handlers that startAutoWatch has attached to it.
startFsWatch(w, dirPath, throwing) ==
    IF dirPath \in throwing THEN w
    ELSE [w EXCEPT !.fsWatchers = Append(@, [dirPath |-> dirPath, fallbacks |-> <<>>])]

\* watcher.ts:138-158
startAutoWatch(w, dirPath, throwing) ==
    LET started == startFsWatch(w, dirPath, throwing)
        last == Len(started.fsWatchers)
    IN  IF last > 0
        THEN [started EXCEPT !.fsWatchers[last].fallbacks = Append(@, dirPath)]
        ELSE startPolling(started, dirPath, dirPath)

\* watcher.ts:48-82: start() over the configured directories, in order
RECURSIVE startEach(_, _, _, _)
startEach(w, paths, watchMode, throwing) ==
    IF paths = <<>> THEN w
    ELSE startEach(IF watchMode = "poll"
                   THEN startPolling(w, Head(paths), Head(paths))
                   ELSE startAutoWatch(w, Head(paths), throwing),
                   Tail(paths), watchMode, throwing)
start(w, watchMode, throwing) ==
    IF w.running THEN w
    ELSE startEach([w EXCEPT !.running = TRUE], PeerSeq, watchMode, throwing)

\* watcher.ts:147-151, run for every handler attached to the watcher that
\* has emitted "error": close it, drop it from fsWatchers, poll the
\* handler's directory
RECURSIVE fallBack(_, _, _)
fallBack(w, watcher, handlers) ==
    IF handlers = <<>> THEN w
    ELSE fallBack(startPolling([w EXCEPT !.fsWatchers = SelectSeq(@, LAMBDA x : x # watcher)],
                               Head(handlers), watcher.dirPath),
                  watcher, Tail(handlers))

\* start() of a watcher in poll mode
StartPolling ==
    /\ ~watch.running
    /\ watch' = start(watch, "poll", {})
    /\ lastOp' = "startPolling"
    /\ UNCHANGED <<set, disk, meta, sidecar, streams, missing, locked, event, budget,
                   scheduled, pre, result, trace, sched, os>>

\* watcher.ts:164-202: the interval callback of one directory; the daemon
\* schedules the set for every change emitted
PollTick ==
    /\ \E p \in DOMAIN watch.snapshots :
          LET currentSnapshot == takeSnapshot(disk, meta, watch.written, p)
              changes == pollChanges(watch.snapshots[p], currentSnapshot)
          IN  IF changes = {}
              THEN /\ event' = NoEvent
                   /\ UNCHANGED <<sched, watch>>
              ELSE /\ watch.count < MaxNotifications
                   /\ event' = [type |-> "poll", filePaths |-> changes, dirPath |-> p]
                   /\ sched' = scheduleEach(sched, 0, Cardinality(changes))
                   /\ watch' = [watch EXCEPT
                          !.snapshots[p] = currentSnapshot,
                          !.burst[0] = IF watch.quiet[0] < DEBOUNCE_MS THEN @ + 1 ELSE 1,
                          !.quiet[0] = 0,
                          !.passes[0] = 0,
                          !.count = @ + 1]
    /\ lastOp' = "poll"
    /\ UNCHANGED <<set, disk, meta, sidecar, streams, missing, locked, budget,
                   scheduled, pre, result, trace, os>>

\* runner.ts:123-149: the callback of a timer that is due
Timeout(t) ==
    /\ t \in sched.timers
    /\ t.remaining = 0
    /\ sched' = [sched EXCEPT !.timers = @ \ {t},
                              !.debounceTimers = MapDelete(@, ToString(t.index))]
    /\ watch' = [watch EXCEPT !.passes[t.index] = @ + 1]

TimeoutDirectory ==
    /\ set.type = "directory"
    /\ \E t \in sched.timers : t.index = 0 /\ Timeout(t)
    /\ \E dt \in PassTicks : Pass(syncSet(dt))
    /\ UNCHANGED os

TimeoutFile ==
    /\ set.type = "file"
    /\ \E t \in sched.timers : t.index = 0 /\ Timeout(t)
    /\ \E dt \in PassTicks : Pass(syncFileSet(dt))
    /\ UNCHANGED os

\* the timer of a polled directory set: the pass writes the metadata file of
\* every peer (engine.ts:146-155)
TimeoutPolled ==
    /\ set.type = "directory"
    /\ missing = {}
    /\ \E t \in sched.timers :
          /\ t.index = 0 /\ t.remaining = 0
          /\ sched' = [sched EXCEPT !.timers = @ \ {t},
                                    !.debounceTimers = MapDelete(@, ToString(t.index))]
          /\ watch' = [watch EXCEPT !.passes[t.index] = @ + 1, !.written = @ + 1]
    /\ \E dt \in PassTicks : Pass(syncSet(dt))
    /\ UNCHANGED os

\* start() of a watcher in auto mode over a directory set; fs.watch throws
\* for any of the directories (the watch limit of the system is reached,
\* the directory could not be created)
StartAuto ==
    /\ set.type = "directory"
    /\ ~watch.running
    /\ \E throwing \in SUBSET PeerIds : watch' = start(watch, "auto", throwing)
    /\ lastOp' = "start"
    /\ UNCHANGED <<set, disk, meta, sidecar, streams, missing, locked, event, budget,
                   scheduled, pre, result, trace, sched, os>>

\* an fs.watch watcher that is open emits "error"
WatcherError ==
    /\ \E i \in 1..Len(watch.fsWatchers) :
          watch' = fallBack(watch, watch.fsWatchers[i], watch.fsWatchers[i].fallbacks)
    /\ lastOp' = "watcherError"
    /\ UNCHANGED <<set, disk, meta, sidecar, streams, missing, locked, event, budget,
                   scheduled, pre, result, trace, sched, os>>

\* lines 131-138: the deletion loop calls deleteFile for a file that the
\* source has deleted and the destination holds below a subdirectory
DeleteNested ==
    /\ \E f \in NestedFiles :
          /\ pathJoin(Root, f) \in os.tree.files
          /\ os' = [os EXCEPT !.tree = deleteFileAt(@, os.tree.dirPath, f)]
    /\ lastOp' = "deleteFile"
    /\ UNCHANGED <<set, disk, meta, sidecar, streams, missing, locked, event, budget,
                   scheduled, pre, result, trace, sched, watch>>

\* the pass of the second set leaves the files of the first alone
TimeoutOther ==
    /\ \E t \in sched.timers : t.index # 0 /\ Timeout(t)
    /\ lastOp' = "syncOther"
    /\ UNCHANGED <<set, disk, meta, sidecar, streams, missing, locked, event, budget,
                   scheduled, pre, result, trace, os>>

\* The steps of the processes.  Every step leaves the sync sets alone.
Lifecycle(next, op) ==
    /\ os' = next
    /\ lastOp' = op
    /\ UNCHANGED <<set, disk, meta, sidecar, streams, missing, locked, event, budget,
                   scheduled, pre, result, trace, sched, watch>>

Launched == Len(os.procs)
At(self, kind, pc) ==
    /\ os.procs[self].alive
    /\ os.procs[self].kind = kind
    /\ os.procs[self].pc = pc

\* somebody runs the daemon's entry point directly
LaunchDaemon ==
    /\ Launched < MaxProcesses
    /\ Lifecycle(Spawn(os, "daemon"), "launch")

\* somebody runs synchrotron start
LaunchStart ==
    /\ Launched + 1 < MaxProcesses
    /\ Lifecycle(Spawn(os, "start"), "start")

\* runner.ts:37: const existingPid = readPidFile()
DaemonRead ==
    \E self \in DOMAIN os.procs :
        /\ At(self, "daemon", "read")
        /\ Lifecycle(Goto([os EXCEPT !.procs[self].existingPid = readPidFile(os)],
                          self, "check"), "daemonRead")

\* runner.ts:38-41: the self-check
DaemonKill ==
    \E self \in DOMAIN os.procs :
        /\ At(self, "daemon", "check")
        /\ LET existingPid == os.procs[self].existingPid
           IN  Lifecycle(Goto(IF existingPid # NoPid /\ existingPid.pid # self
                                  /\ isProcessRunning(os, existingPid.pid)
                               THEN killProcess(os, existingPid.pid) ELSE os,
                               self, "write"), "daemonKill")

\* runner.ts:43 and 98-99: writePidFile(), and the signal handlers
DaemonWrite ==
    \E self \in DOMAIN os.procs :
        /\ At(self, "daemon", "write")
        /\ Lifecycle(Goto(writePidFile(os, self), self, "running"), "daemonWrite")

\* start.ts (part_009:94): const existingPid = readPidFile()
StartRead ==
    \E self \in DOMAIN os.procs :
        /\ At(self, "start", "read")
        /\ Lifecycle(Goto([os EXCEPT !.procs[self].existingPid = readPidFile(os)],
                          self, "check"), "startRead")

\* start.ts (part_009:95-101): kill the daemon of the PID file, remove the file
StartKill ==
    \E self \in DOMAIN os.procs :
        /\ At(self, "start", "check")
        /\ LET existingPid == os.procs[self].existingPid
           IN  Lifecycle(Goto(IF existingPid = NoPid THEN os
                               ELSE removePidFile(
                                        IF isProcessRunning(os, existingPid.pid)
                                        THEN killProcess(os, existingPid.pid) ELSE os),
                               self, "scan"), "startKill")

\* start.ts (part_009:103-108): the scan for orphans
StartScan ==
    \E self \in DOMAIN os.procs :
        /\ At(self, "start", "scan")
        /\ Lifecycle(Goto(killAllSynchrotronProcesses(os, self), self, "spawn"),
                     "startScan")

\* start.ts (part_009:116-126): the detached daemon; the command ends
StartSpawn ==
    \E self \in DOMAIN os.procs :
        /\ At(self, "start", "spawn")
        /\ Lifecycle(Spawn([os EXCEPT !.procs[self].alive = FALSE,
                                      !.procs[self].pc = "done"], "daemon"),
                     "startSpawn")

Init == InitSet(SetTypes, PeerCounts, Starts, MaxEdits)
Next == Write \/ Delete \/ SyncSetPass \/ SyncFileSetPass \/ StreamFinish
Spec == Init /\ [][Next]_vars

\* directory sets alone
NextDir == Write \/ Delete \/ SyncSetPass \/ StreamFinish

\* two directory peers at rest, and one more external change
InitPair == InitSet({"directory"}, {2}, {"rest"}, MaxPairEdits)
SpecPair == InitPair /\ [][NextDir]_vars

\* the environment also locks files, damages metadata and creates missing
\* directories
NextFaults ==
    \/ Write \/ Delete \/ SyncSetPass \/ SyncFileSetPass \/ StreamFinish
    \/ Lock \/ Unlock \/ Corrupt \/ CorruptSidecar \/ Mkdir
InitFaults == InitSet(SetTypes, PeerCounts, FaultStarts, MaxFaultEdits)
SpecFaults == InitFaults /\ [][NextFaults]_vars

\* two peers, and one more change of the environment
InitRetry == InitSet(SetTypes, {2}, FaultStarts, MaxRetryEdits)
SpecRetry == InitRetry /\ [][NextFaults]_vars

\* every kind of set, and one external change
InitMeta == InitSet(SetTypes, PeerCounts, Starts, MaxMetaEdits)
SpecMeta == InitMeta /\ [][Next]_vars

\* two directory peers at rest whose user adds ignore patterns
NextIgnore == Write \/ Delete \/ AddIgnore \/ SyncSetPass \/ StreamFinish
InitIgnore == InitSet({"directory"}, {2}, {"rest"}, MaxIgnoreEdits)
SpecIgnore == InitIgnore /\ [][NextIgnore]_vars

\* the daemon at work: the watchers notify, the debounce timers run the passes
NextDebounce ==
    \/ Write \/ StreamFinish \/ Notify \/ Wait
    \/ TimeoutDirectory \/ TimeoutFile \/ TimeoutOther
InitDebounce == InitSet(SetTypes, {2}, {"rest"}, MaxMetaEdits)
SpecDebounce == InitDebounce /\ [][NextDebounce]_vars

\* start commands and direct launches of the daemon, in any interleaving
NextLifecycle ==
    \/ LaunchDaemon \/ LaunchStart
    \/ DaemonRead \/ DaemonKill \/ DaemonWrite
    \/ StartRead \/ StartKill \/ StartScan \/ StartSpawn
InitLifecycle == InitSet({"directory"}, {2}, {"rest"}, MaxMetaEdits)
SpecLifecycle == InitLifecycle /\ [][NextLifecycle]_vars

\* three directory peers at rest, each of which may change the file
InitTriple == InitSet({"directory"}, {3}, {"rest"}, MaxTripleEdits)
SpecTriple == InitTriple /\ [][NextDir]_vars

\* two directory peers at rest in which other programs leave files
NextNames == Touch \/ SyncSetPass
InitNames == InitSet({"directory"}, {2}, {"rest"}, MaxNameEdits)
SpecNames == InitNames /\ [][NextNames]_vars

\* two directory peers at rest whose passes may be cut short
NextCrash == Write \/ Delete \/ SyncSetPass \/ SyncSetKilled \/ StreamFinish
InitCrash == InitSet({"directory"}, {2}, {"rest"}, MaxCrashEdits)
SpecCrash == InitCrash /\ [][NextCrash]_vars

\* the daemon over two directory peers at rest whose watcher polls
NextPoll == Write \/ StreamFinish \/ StartPolling \/ PollTick \/ Wait \/ TimeoutPolled
InitPoll ==
    /\ InitSet({"directory"}, {2}, {"rest"}, MaxMetaEdits)
    /\ set.conflictResolution = "last-write-wins"
SpecPoll == InitPoll /\ [][NextPoll]_vars

\* the watcher of a directory set in auto mode, fs.watch failing at any time
NextWatch == Write \/ StartAuto \/ WatcherError
InitWatch == InitSet({"directory"}, PeerCounts, {"rest"}, MaxMetaEdits)
SpecWatch == InitWatch /\ [][NextWatch]_vars

\* two directory peers at rest in which files become unreadable
NextUnreadable == Write \/ Delete \/ Chmod \/ SyncSetPass \/ StreamFinish
InitUnreadable == InitSet({"directory"}, {2}, {"rest"}, MaxFaultEdits)
SpecUnreadable == InitUnreadable /\ [][NextUnreadable]_vars

\* a destination whose files lie in subdirectories, and the deletions of a
\* pass in it
NextNested == DeleteNested
InitNested ==
    /\ InitFiles({"directory"}, {2}, {"rest"}, MaxMetaEdits)
    /\ \E dirPath \in DirPaths, files \in SUBSET NestedFiles, empties \in SUBSET EmptyDirs :
          os = [NoProcesses EXCEPT !.tree = TreeOf(dirPath, files, empties)]
SpecNested == InitNested /\ [][NextNested]_vars

\* -------------------------------------------------------------- the claims

PassOps == {"syncSet", "syncFileSet"}
AfterSyncSet == lastOp = "syncSet"
AfterSyncFileSet == lastOp = "syncFileSet"
ZeroCounts(r) ==
    r.filesAdded = 0 /\ r.filesModified = 0 /\ r.filesDeleted = 0 /\ r.conflicts = 0
\* path -> content hash
HashesOf(dir) == [n \in DOMAIN dir |-> hashFile(dir[n].content)]
Ops(kind) == {i \in 1..Len(trace) : trace[i].op = kind}
CanonNames == {Canon(f) : f \in PathsOf(set)}
\* the manifest in the text of a metadata file, the hash in that of a sidecar
ManifestOf(raw) == JSONparse(raw).manifest
HashOf(raw) == JSONparseSidecar(raw).hash
\* before the pass: the peer had no metadata
WasFresh(p) == pre.meta[p] = NoMeta
\* before the pass: the stored manifest of peer p recorded n
Recorded(p, n) == ~WasFresh(p) /\ n \in DOMAIN ManifestOf(pre.meta[p])
\* before the pass: n was at peer p with another content than recorded
WasModified(p, n) ==
    /\ Recorded(p, n)
    /\ Exists(pre.disk[p], n)
    /\ hashFile(pre.disk[p][n].content) # ManifestOf(pre.meta[p])[n].hash
\* before the pass: n was at peer p as recorded
WasUnmodified(p, n) ==
    /\ Recorded(p, n)
    /\ Exists(pre.disk[p], n)
    /\ hashFile(pre.disk[p][n].content) = ManifestOf(pre.meta[p])[n].hash
\* before the pass: peer p had deleted the recorded n
WasDeleted(p, n) == Recorded(p, n) /\ ~Exists(pre.disk[p], n)
\* before the pass: the two peers were synced on n
WereSynced(p, q, n) ==
    /\ Recorded(p, n) /\ Recorded(q, n)
    /\ ManifestOf(pre.meta[p])[n].hash = ManifestOf(pre.meta[q])[n].hash
\* content c is on some disk now
OnDiskNow(c) == \E p \in PeerIds : \E m \in DOMAIN disk[p] : disk[p][m].content = c

\* C1: a pass that immediately follows a pass, nothing having changed on any
\* disk in between, reports no addition, modification, deletion or conflict,
\* for directory sets and for file sets
C1_Idempotence ==
    (lastOp \in PassOps /\ pre.lastOp \in PassOps) => ZeroCounts(result)
\* a second pass in a row, the first having copied, deleted or resolved
\* something
C1_Witness ==
    /\ lastOp \in PassOps /\ pre.lastOp \in PassOps
    /\ ~ZeroCounts(pre.result)
    /\ ZeroCounts(result)

\* before the pass: peer s alone held files, every other peer was empty and
\* had no metadata
WasSeed(s) ==
    /\ pre.disk[s] # EmptyDir
    /\ \A q \in PeerIds \ {s} : pre.disk[q] = EmptyDir /\ WasFresh(q)

\* C2: in a directory set of N >= 2 peers of which one alone holds files, the
\* others being empty and without metadata, one pass leaves every peer with
\* the seed's manifest (path -> content hash), reports no conflict and no
\* error and leaves the seed's files as they were
C2_SeedConvergence ==
    AfterSyncSet =>
        \A s \in PeerIds :
            WasSeed(s) =>
                /\ \A p \in PeerIds : HashesOf(disk[p]) = HashesOf(pre.disk[s])
                /\ result.conflicts = 0
                /\ result.errors = <<>>
                /\ disk[s] = pre.disk[s]

\* C3: in a directory pass no file is deleted (or moved away) at a peer that
\* had no metadata when the pass started; a file is deleted at a peer only if
\* some other peer that had metadata had recorded the file and holds it no
\* longer; and the diff of a peer without metadata has no deleted entry
C3_FreshNonDestructive ==
    /\ \A p \in PeerIds : meta[p] = NoMeta => dirStates[p].diff.deleted = <<>>
    /\ AfterSyncSet =>
          /\ \A p \in PeerIds :
                WasFresh(p) => \A n \in DOMAIN pre.disk[p] : Exists(disk[p], n)
          /\ \A i \in Ops("delete") :
                /\ ~WasFresh(trace[i].to)
                /\ \E q \in PeerIds \ {trace[i].to} : WasDeleted(q, trace[i].name)
\* a pass over a peer without metadata that holds a file which a peer with
\* metadata has deleted: the file is still there after the pass
C3_Witness ==
    /\ AfterSyncSet
    /\ \E p, q \in PeerIds : \E n \in CanonNames :
          /\ WasFresh(p) /\ Exists(pre.disk[p], n)
          /\ WasDeleted(q, n)
          /\ Exists(disk[p], n)

\* C4: two directory peers synced on F.  If F is deleted at one and modified
\* at the other, the pass does not delete F at the other and the edited
\* content is still on disk after the pass; if F is deleted at one and
\* unmodified at the other, the pass deletes F at the other.
C4_DeleteVersusEdit ==
    (AfterSyncSet /\ set.npeers = 2) =>
        \A d, o \in PeerIds : \A n \in CanonNames :
            (d # o /\ WereSynced(d, o, n) /\ WasDeleted(d, n)) =>
                /\ WasModified(o, n) =>
                      /\ \A i \in Ops("delete") :
                            ~(trace[i].to = o /\ trace[i].name = n)
                      /\ OnDiskNow(pre.disk[o][n].content)
                /\ WasUnmodified(o, n) => ~Exists(disk[o], n)

\* before the pass: both peers had changed the synced n, to different contents
BothModified(p, q, n) ==
    /\ p # q
    /\ WereSynced(p, q, n)
    /\ WasModified(p, n) /\ WasModified(q, n)
    /\ pre.disk[p][n].content # pre.disk[q][n].content
\* content c is at the canonical path n of some peer
AtCanonical(n, c) == \E p \in PeerIds : Exists(disk[p], n) /\ disk[p][n].content = c
\* content c is under a conflict name made from n at some peer
AtConflictName(n, c) ==
    \E p \in PeerIds : \E m \in DOMAIN disk[p] :
        m.path = n.path /\ ~IsCanon(m) /\ disk[p][m].content = c

\* C5: two directory peers under keep-both that have both modified a synced
\* path, to different contents: after the pass one of the two contents is at
\* the canonical path, the other under a conflict name, and conflicts >= 1
C5_KeepBoth ==
    (AfterSyncSet /\ set.npeers = 2 /\ set.conflictResolution = "keep-both") =>
        \A n \in CanonNames :
            BothModified(1, 2, n) =>
                /\ \E w, l \in PeerIds :
                      /\ w # l
                      /\ AtCanonical(n, pre.disk[w][n].content)
                      /\ AtConflictName(n, pre.disk[l][n].content)
                /\ result.conflicts >= 1

\* C6: two directory peers under last-write-wins that have both modified a
\* synced path, peer A strictly later than peer B: after the pass the
\* canonical path holds A's content at both peers, whichever of A and B is
\* first in the configured order, and no file has been renamed
C6_LastWriteWins ==
    (AfterSyncSet /\ set.npeers = 2 /\ set.conflictResolution = "last-write-wins") =>
        \A A, B \in PeerIds : \A n \in CanonNames :
            (/\ A # B
             /\ WereSynced(A, B, n)
             /\ WasModified(A, n) /\ WasModified(B, n)
             /\ pre.disk[A][n].mtimeMs > pre.disk[B][n].mtimeMs) =>
                /\ \A p \in PeerIds :
                      Exists(disk[p], n) /\ disk[p][n].content = pre.disk[A][n].content
                /\ Ops("rename") = {}

\* before the pass: the file of peer p existed and had no sidecar, or another
\* hash than its sidecar recorded
WasChanged(p) ==
    /\ Exists(pre.disk[p], TheFile)
    /\ \/ pre.sidecar[p] = NoMeta
       \/ HashOf(pre.sidecar[p]) # hashFile(pre.disk[p][TheFile].content)
ChangedBefore == {p \in PeerIds : WasChanged(p)}
\* every peer file holds content c
AllHold(c) == \A p \in PeerIds : Exists(disk[p], TheFile) /\ disk[p][TheFile].content = c
MinOf(S) == CHOOSE x \in S : \A y \in S : x <= y

\* C7: when exactly one peer of a file set is changed, after the pass every
\* peer file holds that peer's content and every sidecar records its hash
C7_SingleWinner ==
    AfterSyncFileSet =>
        \A w \in PeerIds :
            ChangedBefore = {w} =>
                /\ AllHold(pre.disk[w][TheFile].content)
                /\ \A p \in PeerIds :
                      /\ sidecar[p] # NoMeta
                      /\ HashOf(sidecar[p]) = hashFile(pre.disk[w][TheFile].content)

\* C8: when two or more peers of a keep-both file set are changed, the first
\* changed peer in the configured order wins: after the pass every peer file
\* holds its content, and the content every other changed peer had is next to
\* that peer's file under a conflict name
C8_FileKeepBoth ==
    (AfterSyncFileSet /\ set.conflictResolution = "keep-both"
        /\ Cardinality(ChangedBefore) >= 2) =>
        LET w == MinOf(ChangedBefore)
        IN  /\ AllHold(pre.disk[w][TheFile].content)
            /\ \A l \in ChangedBefore \ {w} :
                  \E m \in DOMAIN disk[l] :
                      /\ m.path = TheFile.path /\ ~IsCanon(m)
                      /\ disk[l][m].content = pre.disk[l][TheFile].content

\* the changed peers with the greatest modification time
LatestChanged ==
    {p \in ChangedBefore :
        \A q \in ChangedBefore :
            pre.disk[q][TheFile].mtimeMs <= pre.disk[p][TheFile].mtimeMs}

\* C9: when two or more peers of a last-write-wins file set are changed, the
\* changed peer with the greatest modification time wins, the earliest in the
\* configured order among equals: after the pass every peer file holds its
\* content, and no file has been renamed
C9_FileLastWriteWins ==
    (AfterSyncFileSet /\ set.conflictResolution = "last-write-wins"
        /\ Cardinality(ChangedBefore) >= 2) =>
        LET w == MinOf(LatestChanged)
        IN  /\ AllHold(pre.disk[w][TheFile].content)
            /\ Ops("rename") = {}

OrderedPairs == {pr \in PeerIds \X PeerIds : pr[1] # pr[2]}
\* the pairs whose try block the last pass entered
PairsEntered == {<<trace[i].from, trace[i].to>> : i \in Ops("pair")}
\* before the pass: every configured directory was there and every metadata
\* file could be read
WasValid == pre.missing = {} /\ \A p \in PeerIds : pre.meta[p] # CorruptMeta
\* the last pass returned a SyncResult after the pair loop
AfterPairs == lastOp = "syncSet" /\ WasValid
HasManifest(m) == m # NoMeta /\ m # CorruptMeta

\* C11: when the directory of a configured peer does not exist, syncSet
\* creates it, treats the peer as fresh, copies the files of the other peers
\* into it and returns no error
C11_MissingDirBootstrapped ==
    (lastOp = "syncSet" /\ pre.missing # {}) =>
        /\ missing = {}
        /\ result.errors = <<>>
        /\ \A p \in pre.missing : \A q \in PeerIds \ pre.missing :
              \A n \in DOMAIN buildManifest(pre.disk[q]) :
                  Exists(disk[p], n) \/ \E str \in streams : str.to = <<p, n>>

CountOf(actions, type) == Cardinality({i \in 1..Len(actions) : actions[i].type = type})

\* C12: the SyncResult of every pass carries a list of actions from which the
\* counters can be rebuilt: one "added", "modified", "deleted" or "conflict"
\* record, with a source path, for each addition, modification, deletion and
\* conflict counted
C12_AuditTrail ==
    lastOp \in PassOps =>
        /\ "actions" \in DOMAIN result
        /\ CountOf(result.actions, "added") = result.filesAdded
        /\ CountOf(result.actions, "modified") = result.filesModified
        /\ CountOf(result.actions, "deleted") = result.filesDeleted
        /\ CountOf(result.actions, "conflict") = result.conflicts
        /\ \A i \in 1..Len(result.actions) : "sourcePath" \in DOMAIN result.actions[i]

\* the metadata, sidecar, derivative and legacy names, the conflict names of
\* the documentation and the names that keep-both resolution has made
BuiltInPaths ==
    RangeOf(MetadataNames \o SidecarNames \o DerivativeNames \o LegacyNames
                \o DocumentedConflictNames)
IsArtifact(n) == ~IsCanon(n)
IsBuiltIn(n) == n.path \in BuiltInPaths \/ IsArtifact(n)
InManifest(p, n) == n \in DOMAIN buildManifest(disk[p])

\* C13: the manifest of a directory has no entry for a file whose name is the
\* metadata name, ends in the sidecar extension, starts with the metadata
\* name and a dot, is the legacy name or starts with it and a dot, or is the
\* name of a conflict copy; it has an entry for the ordinary file
\* notasync.txt
C13_IgnoreExhaustive ==
    \A p \in PeerIds : \A n \in DOMAIN disk[p] :
        /\ IsBuiltIn(n) => ~InManifest(p, n)
        /\ (IsCanon(n) /\ n.path \in RangeOf(OrdinaryNames)) => InManifest(p, n)

\* C14: a conflict copy made by keep-both resolution is in no stored
\* manifest, and no pass copies, streams, renames or deletes a conflict copy
C14_ArtifactsNotContent ==
    /\ \A p \in PeerIds :
          HasManifest(meta[p]) => \A n \in DOMAIN ManifestOf(meta[p]) : ~IsArtifact(n)
    /\ \A i \in Ops("copy") \cup Ops("stream") \cup Ops("rename") \cup Ops("delete") :
          ~IsArtifact(trace[i].name)

\* C15: for every built-in name (metadata, sidecar, derivative, legacy,
\* conflict copy) the watcher suppresses the change event of that name exactly
\* when the manifest builder excludes the name, and no change event is emitted
\* for a name that manifests exclude
C15_SharedPredicate ==
    /\ \A p \in PeerIds : \A n \in DOMAIN disk[p] :
          IsBuiltIn(n) =>
              ((fsWatchCallback(p, RelativePath(n)) = NoEvent) <=> ~InManifest(p, n))
    /\ event # NoEvent => ~shouldIgnorePath(event.filePath[2])

\* C16: after a directory pass that got past its checks of the paths, every
\* peer has metadata whose manifest is the manifest of its disk as the pairs
\* left it, so that no peer is fresh for the next pass
C16_MetadataFinalState ==
    AfterPairs =>
        \A p \in PeerIds :
            /\ HasManifest(meta[p])
            /\ ManifestOf(meta[p]) = buildManifest(disk[p])
            /\ ~dirStates[p].isFresh
\* a pass with an error in one pair that changed the disk of one peer and
\* left the disk of another as it was
C16_Witness ==
    /\ AfterPairs
    /\ result.errors # <<>>
    /\ \E p, q \in PeerIds : disk[p] = pre.disk[p] /\ disk[q] # pre.disk[q]

\* the pair pr comes after the pair qr in the order of the pair loop
PairAfter(pr, qr) == pr[1] > qr[1] \/ (pr[1] = qr[1] /\ pr[2] > qr[2])

\* C17: a directory pass over directories that exist and metadata that can
\* be read returns a result; its try block is entered once for every ordered
\* pair whatever failed in the pairs before; every error carries the pair it
\* happened in, at most one for a pair; and every peer has metadata after it
C17_PairErrorContainment ==
    (lastOp \in {"syncSet", "syncSetThrew"} /\ WasValid) =>
        /\ lastOp = "syncSet"
        /\ PairsEntered = OrderedPairs
        /\ Cardinality(Ops("pair")) = Cardinality(OrderedPairs)
        /\ \A k \in 1..Len(result.errors) : result.errors[k].at \in OrderedPairs
        /\ \A k, l \in 1..Len(result.errors) :
              result.errors[k].at = result.errors[l].at => k = l
        /\ \A p \in PeerIds : HasManifest(meta[p])
\* a pass in which one pair failed on a locked file and a later pair copied a
\* file
C17_Witness ==
    /\ AfterPairs
    /\ \E k \in 1..Len(result.errors) : \E i \in Ops("copy") :
          /\ result.errors[k].message = "File locked or permission denied"
          /\ PairAfter(<<trace[i].from, trace[i].to>>, result.errors[k].at)

\* before the pass: n was at peer p and its stored manifest did not record it
WasAdded(p, n) == ~WasFresh(p) /\ ~Recorded(p, n) /\ Exists(pre.disk[p], n)
HoldsContentOf(j, i, n) ==
    Exists(disk[j], n) /\ disk[j][n].content = pre.disk[i][n].content

\* C18: in a pass over two directory peers in which no file is large, a
\* failure on one file does not keep the other files of the pair from being
\* propagated: a file modified or added at the source whose destination copy
\* is unmodified (or absent) and writable has the source's content at the
\* destination after the pass, and a file deleted at the source whose
\* destination copy is unmodified and writable is gone from the destination
C18_PerFileIsolation ==
    (AfterPairs /\ set.npeers = 2 /\ scheduled = 0) =>
        \A i, j \in PeerIds : \A n \in CanonNames :
            (i # j /\ ~WasFresh(j) /\ <<j, n>> \notin pre.locked) =>
                /\ (WasModified(i, n) /\ WasUnmodified(j, n)) => HoldsContentOf(j, i, n)
                /\ (WasAdded(i, n) /\ ~Exists(pre.disk[j], n) /\ ~Recorded(j, n)) =>
                      HoldsContentOf(j, i, n)
                /\ (WasDeleted(i, n) /\ WasUnmodified(j, n)) => ~Exists(disk[j], n)

\* the errors of the pass before the last were copies onto a locked file
LockedCopyErrors ==
    {k \in 1..Len(pre.result.errors) :
        pre.result.errors[k].message = "File locked or permission denied"}

\* C19: a pass failed to copy a file onto a locked file; the file was then
\* unlocked and nothing else changed; no file is large.  The next pass
\* (directory set or file set) delivers the content: the destination of the
\* failed copy holds every file of its source, with the source's content
C19_FailedCopyRetried ==
    (/\ lastOp \in PassOps
     /\ pre.lastOp = "unlock" /\ pre.locked = {}
     /\ scheduled = 0
     /\ LockedCopyErrors # {}) =>
        \A k \in LockedCopyErrors :
            LET src == pre.result.errors[k].at[1]
                dst == pre.result.errors[k].at[2]
            IN  \A n \in CanonNames :
                    Exists(disk[src], n) =>
                        Exists(disk[dst], n) /\ disk[dst][n].content = disk[src][n].content

\* C20: a metadata file that is there and cannot be used makes readMetadata
\* throw, never return none; a directory pass over such a peer does no file
\* operation and writes no metadata, and when every directory exists it
\* throws
C20_CorruptIsHardError ==
    /\ \A p \in PeerIds :
          meta[p] = CorruptMeta => Threw(readMetadata(p)) /\ readMetadata(p) # NoMeta
    /\ (lastOp \in {"syncSet", "syncSetThrew"} /\ \E p \in PeerIds : pre.meta[p] = CorruptMeta) =>
          /\ disk = pre.disk
          /\ meta = pre.meta
          /\ streams = pre.streams
          /\ trace = <<>>
          /\ pre.missing = {} => lastOp = "syncSetThrew"
\* a pass that threw over a set in which one peer's metadata is damaged and
\* another peer holds a change to propagate
C20_Witness ==
    /\ lastOp = "syncSetThrew"
    /\ \E p, q \in PeerIds :
          /\ pre.meta[p] = CorruptMeta
          /\ HasManifest(pre.meta[q])
          /\ buildManifest(pre.disk[q]) # ManifestOf(pre.meta[q])
          /\ disk[q] = pre.disk[q]

\* before the pass: the sidecar of peer p was there and could not be used
WasCorruptSidecar(p) == pre.sidecar[p] = CorruptMeta

\* C21: a sidecar that is present and unusable is not read as an absent
\* sidecar, and in a file-set pass a peer with such a sidecar is not the
\* source of a copy and does not add to the conflicts of the result
C21_CorruptSidecarIsHardError ==
    /\ \A p \in PeerIds : sidecar[p] = CorruptMeta => readFileMetadata(p) # NoMeta
    /\ (lastOp = "syncFileSet" /\ \E p \in PeerIds : WasCorruptSidecar(p)) =>
          /\ \A i \in Ops("copy") \cup Ops("stream") : ~WasCorruptSidecar(trace[i].from)
          /\ result.conflicts = 0

\* the metadata a pass at time t would write for directory peer p, and the
\* sidecar it would write for the file of peer p
MetadataNow(p, t) == [lastSyncTime |-> t, manifest |-> buildManifest(disk[p])]
FileMetadataNow(p, t) ==
    [hash |-> hashFile(disk[p][TheFile].content), mtimeMs |-> disk[p][TheFile].mtimeMs,
     size |-> Size(disk[p][TheFile].content), lastSyncTime |-> t]
Holders == {p \in PeerIds : Exists(disk[p], TheFile)}

HadChanged(p, n) == WasModified(p, n) \/ WasAdded(p, n)
\* the paths that two peers or more had changed before the pass
ConflictingPaths ==
    {n \in CanonNames : \E p, q \in PeerIds : p # q /\ HadChanged(p, n) /\ HadChanged(q, n)}

\* C23: the conflicts counter of a directory pass without errors and without
\* large files is the number of paths that two peers or more had changed; the
\* conflicts counter of a file-set pass with k >= 2 changed peers is k - 1
C23_ConflictCounting ==
    /\ (AfterPairs /\ result.errors = <<>> /\ scheduled = 0) =>
          result.conflicts = Cardinality(ConflictingPaths)
    /\ (lastOp = "syncFileSet" /\ Cardinality(ChangedBefore) >= 2) =>
          result.conflicts = Cardinality(ChangedBefore) - 1

\* C24: in a directory pass no file is copied, or handed to a streaming copy,
\* from a peer that had no metadata when the pass started, and the pass
\* counts no conflict unless two peers with metadata had changed one path
C24_FreshPeerPureSink ==
    AfterPairs =>
        /\ \A i \in Ops("copy") \cup Ops("stream") : ~WasFresh(trace[i].from)
        /\ ConflictingPaths = {} => result.conflicts = 0

PathsIn(entries) == {entries[i].relativePath : i \in 1..Len(entries)}

\* C25: the diff of the stored manifest of a peer against the manifest of its
\* disk has as added the paths in the current manifest alone, as deleted
\* those in the previous alone, as modified those in both with different
\* hashes, as unchanged those in both with one hash, and every path of
\* either manifest once in all
C25_DiffPartition ==
    \A p \in PeerIds :
        meta[p] # CorruptMeta =>
            LET prev == dirStates[p].previousManifest
                cur == dirStates[p].currentManifest
                diff == diffManifests(prev, cur)
                P == DOMAIN prev
                C == DOMAIN cur
            IN  /\ PathsIn(diff.added) = C \ P
                /\ PathsIn(diff.deleted) = P \ C
                /\ PathsIn(diff.modified) = {n \in C \cap P : prev[n].hash # cur[n].hash}
                /\ PathsIn(diff.unchanged) = {n \in C \cap P : prev[n].hash = cur[n].hash}
                /\ Len(diff.added) + Len(diff.deleted) + Len(diff.modified)
                       + Len(diff.unchanged) = Cardinality(P \cup C)

\* the name matches an ignore pattern of the set
IsIgnored(n) == matchesPattern(RelativePath(n), set.ignore)

\* C26: a file that matches an ignore pattern of its directory set is not in
\* the deleted entries of the diff of any peer, no pass deletes it, and a
\* peer that held it before a pass holds it after the pass
C26_IgnoreIsNotDeletion ==
    /\ \A p \in PeerIds : \A n \in PathsIn(dirStates[p].diff.deleted) : ~IsIgnored(n)
    /\ AfterPairs =>
          /\ \A i \in Ops("delete") : ~IsIgnored(trace[i].name)
          /\ \A p \in PeerIds : \A n \in DOMAIN pre.disk[p] :
                IsIgnored(n) => Exists(disk[p], n)


\* C27: debounce coalescing.  For each sync set at most one debounce timer is
\* pending, and it is the one in debounceTimers; it is due DEBOUNCE_MS after
\* the last notification of its own set, whatever the other set was notified
\* of (a notification resets the timer of its set and no other); after the
\* last notification of a burst exactly one pass runs, and none before the
\* set has been quiet for DEBOUNCE_MS.
TimersOf(index) == {t \in sched.timers : t.index = index}
C27_DebounceCoalescing ==
    \A index \in SetIndexes :
        /\ Cardinality(TimersOf(index)) <= 1
        /\ \A t \in TimersOf(index) :
              /\ MapGet(sched.debounceTimers, ToString(index)) = t.id
              /\ t.remaining = DEBOUNCE_MS - watch.quiet[index]
        /\ watch.passes[index] + Cardinality(TimersOf(index))
              = (IF watch.burst[index] > 0 THEN 1 ELSE 0)
        /\ watch.passes[index] > 0 => watch.quiet[index] = DEBOUNCE_MS
\* a burst of two notifications of the first set less than DEBOUNCE_MS apart
\* has just been followed by its pass, while a timer of the second set is
\* pending
C27_Witness ==
    /\ lastOp \in {"syncSet", "syncFileSet"}
    /\ watch.burst[0] >= 2
    /\ watch.passes[0] = 1
    /\ TimersOf(1) # {}
    /\ TimersOf(0) = {}

\* C28: single daemon instance.  At every moment at most one daemon that has
\* finished its startup is running; and once no process is starting, the
\* PID file names the running daemon.
RunningDaemons == {pid \in DOMAIN os.procs : At(pid, "daemon", "running")}
Starting == {pid \in DOMAIN os.procs : os.procs[pid].alive} \ RunningDaemons
C28_SingleDaemonInstance ==
    /\ Cardinality(RunningDaemons) <= 1
    /\ (Starting = {} /\ RunningDaemons # {}) =>
          /\ readPidFile(os) # NoPid
          /\ readPidFile(os).pid \in RunningDaemons

\* before the pass: the peers of S were pairwise synced on n
AllSynced(S, n) == \A p, q \in S : WereSynced(p, q, n)
\* C29: three directory peers synced on F.  F is modified at one, deleted at
\* a second and unmodified at the third before the pass: after the pass F is
\* at all three with the edited content, whichever peer has which role, and
\* no delete of the pass removes F where an earlier copy of the pass put it.
C29_DeleteNeverClobbersEdit ==
    (AfterSyncSet /\ set.npeers >= 3) =>
        \A m, d, u \in PeerIds : \A n \in CanonNames :
            (/\ m # d /\ m # u /\ d # u
             /\ AllSynced({m, d, u}, n)
             /\ WasModified(m, n) /\ WasDeleted(d, n) /\ WasUnmodified(u, n)) =>
                /\ \A p \in {m, d, u} :
                      Exists(disk[p], n) /\ disk[p][n].content = pre.disk[m][n].content
                /\ \A i \in Ops("delete") : \A j \in Ops("copy") \cup Ops("stream") :
                      ~(j < i /\ trace[j].name = n /\ trace[i].name = n
                        /\ trace[j].to = trace[i].to)

\* before the pass: peer w had modified n later than every other peer
WasLatest(w, n) == \A p \in PeerIds \ {w} : pre.disk[w][n].mtimeMs > pre.disk[p][n].mtimeMs
\* C30: three or more directory peers under last-write-wins, synced on F,
\* have all modified F, at pairwise distinct times: after the pass the
\* canonical path of every peer holds the content of the peer that modified
\* it last, whatever the order of the peers
C30_LastWriteWinsConverges ==
    (AfterSyncSet /\ set.npeers >= 3 /\ set.conflictResolution = "last-write-wins") =>
        \A w \in PeerIds : \A n \in CanonNames :
            (/\ AllSynced(PeerIds, n)
             /\ \A p \in PeerIds : WasModified(p, n)
             /\ \A p, q \in PeerIds :
                   p # q => pre.disk[p][n].mtimeMs # pre.disk[q][n].mtimeMs
             /\ WasLatest(w, n)) =>
                \A p \in PeerIds :
                    Exists(disk[p], n) /\ disk[p][n].content = pre.disk[w][n].content
\* before the pass: every peer of S had changed the synced n, and no two of
\* them to the same content
AllModified(S, n) ==
    /\ AllSynced(S, n)
    /\ \A p \in S : WasModified(p, n)
    /\ \A p, q \in S : p # q => pre.disk[p][n].content # pre.disk[q][n].content

\* C31: three directory peers under keep-both that have all modified a synced
\* path, to pairwise different contents: after one pass (that streamed
\* nothing) the content each peer held before the pass is still on disk
\* under some name, and no conflict rename has replaced an existing file
C31_KeepBothLosesNoVersion ==
    (/\ AfterSyncSet /\ set.npeers = 3 /\ set.conflictResolution = "keep-both"
     /\ Ops("stream") = {}) =>
        \A n \in CanonNames :
            AllModified(PeerIds, n) =>
                /\ \A p \in PeerIds : OnDiskNow(pre.disk[p][n].content)
                /\ \A i \in Ops("rename") : ~trace[i].replaced

\* the stored manifest of every peer is the manifest of its directory
MetadataCurrent(mt, dk) ==
    \A p \in PeerIds : mt[p] # NoMeta /\ ManifestOf(mt[p]) = buildManifest(dk[p])

\* C32: a directory pass that stops before its end, whatever number of pairs
\* it has finished, leaves the metadata file of every peer as it was; a pass
\* that runs to its end writes every peer's metadata after its last pair, so
\* that the stored manifest is the manifest of the directory the pairs leave
C32_MetadataAfterPropagation ==
    /\ lastOp = "syncSetKilled" => meta = pre.meta
    /\ (AfterSyncSet /\ missing = {}) => MetadataCurrent(meta, disk)
\* a pass was stopped after it had copied a file: the destination's metadata
\* is behind its directory
C32_Witness ==
    /\ lastOp = "syncSetKilled"
    /\ Ops("copy") # {}
    /\ meta = pre.meta
    /\ ~MetadataCurrent(meta, disk)

\* a complete pass has followed a stopped pass, nothing having changed on any
\* disk in between
Recovered == AfterSyncSet /\ pre.lastOp = "syncSetKilled"
\* the hash of n at peer p when the stopped pass started, the hash its
\* metadata recorded, the hash now
HashBeforeStop(p, n) ==
    IF Exists(pre.before[p], n) THEN hashFile(pre.before[p][n].content) ELSE NoHash
HashRecorded(p, n) ==
    IF Recorded(p, n) THEN ManifestOf(pre.meta[p])[n].hash ELSE NoHash
HashNow(p, n) == IF Exists(disk[p], n) THEN hashFile(disk[p][n].content) ELSE NoHash
\* the peers that had changed n when the stopped pass started
ChangedBeforeStop(n) == {p \in PeerIds : HashBeforeStop(p, n) # HashRecorded(p, n)}
\* no file was large enough for a streaming copy when the stopped pass started
NoLargeFile ==
    \A p \in PeerIds : \A n \in DOMAIN pre.before[p] :
        Size(pre.before[p][n].content) <= STREAMING_THRESHOLD

\* C33: a directory pass is stopped after some of its pairs and before any
\* metadata is written, and a complete pass follows with no change in
\* between.  If every path had been changed at one peer at most, and no file
\* was large, the complete pass leaves every peer with the content of the
\* peer that changed the path (what an uninterrupted pass produces), reports
\* no conflict, renames nothing and leaves no file under a conflict name.
C33_CrashRecovery ==
    (/\ Recovered
     /\ NoLargeFile
     /\ \A n \in CanonNames : Cardinality(ChangedBeforeStop(n)) <= 1) =>
        /\ \A n \in CanonNames : \A p \in ChangedBeforeStop(n) : \A q \in PeerIds :
              HashNow(q, n) = HashBeforeStop(p, n)
        /\ result.conflicts = 0
        /\ Ops("rename") = {}
        /\ \A q \in PeerIds : \A m \in DOMAIN disk[q] : IsCanon(m)

\* C34: the watcher of a polled directory emits no change event for the
\* metadata file, which only the passes write
C34_NoSelfTriggering ==
    (lastOp = "poll" /\ event # NoEvent) => MetadataFile \notin event.filePaths

\* the copy of a large source to peer d is complete: n is at d with a
\* content of more than STREAMING_THRESHOLD
CopiedInFull(d, n) ==
    Exists(disk[d], n) /\ Size(disk[d][n].content) > STREAMING_THRESHOLD
\* the hash that the pass recorded for n at peer d is the hash of content c
RecordedHashIs(d, n, c) ==
    IF set.type = "directory"
    THEN /\ meta[d] # NoMeta
         /\ n \in DOMAIN ManifestOf(meta[d])
         /\ ManifestOf(meta[d])[n].hash = hashFile(c)
    ELSE sidecar[d] # NoMeta /\ HashOf(sidecar[d]) = hashFile(c)

\* C35: when a pass returns, every copy it made of a source of more than
\* STREAMING_THRESHOLD is complete at its destination, and the hash recorded
\* for the destination is the hash of the copied content, or the pass has
\* recorded an error
C35_LargeCopiesInPass ==
    lastOp \in PassOps =>
        \A i \in Ops("stream") :
            \/ result.errors # <<>>
            \/ /\ CopiedInFull(trace[i].to, trace[i].name)
               /\ RecordedHashIs(trace[i].to, trace[i].name,
                                 disk[trace[i].to][trace[i].name].content)

\* before the pass: the peers whose file was absent and had no sidecar
FreshBefore ==
    {p \in PeerIds : ~Exists(pre.disk[p], TheFile) /\ pre.sidecar[p] = NoMeta}
\* before the pass: the peers whose file existed
ExistingBefore == {p \in PeerIds : Exists(pre.disk[p], TheFile)}

\* C36: a pass over a file set in which no peer has changed, one peer at
\* least is fresh (no file, no sidecar) and one other peer at least holds
\* the file leaves every fresh peer with the content of an existing peer and
\* with a sidecar
C36_FreshFilePeersPopulated ==
    (/\ AfterSyncFileSet
     /\ ChangedBefore = {}
     /\ FreshBefore # {}
     /\ ExistingBefore # {}) =>
        \A p \in FreshBefore :
            /\ Exists(disk[p], TheFile)
            /\ \E q \in ExistingBefore :
                  disk[p][TheFile].content = pre.disk[q][TheFile].content
            /\ sidecar[p] # NoMeta

\* directory p has an open fs.watch watcher, an interval timer
Watched(p) == \E i \in 1..Len(watch.fsWatchers) : watch.fsWatchers[i].dirPath = p
Polled(p) == \E i \in 1..Len(watch.pollTimers) : watch.pollTimers[i].dirPath = p

\* C37: once a watcher in auto mode is started, every configured directory
\* has an open fs.watch watcher or an interval timer of its own, and an
\* interval timer polls the directory whose fs.watch failed, never another
C37_AutoModeCoversEveryPath ==
    watch.running =>
        /\ \A p \in PeerIds : Watched(p) \/ Polled(p)
        /\ \A i \in 1..Len(watch.pollTimers) :
              watch.pollTimers[i].dirPath = watch.pollTimers[i].failed

\* before the pass: peer d had no metadata and held n, which peer s held
\* with another content
FreshWithOwnVersion(s, d, n) ==
    /\ s # d
    /\ WasFresh(d)
    /\ Exists(pre.disk[d], n) /\ Exists(pre.disk[s], n)
    /\ pre.disk[d][n].content # pre.disk[s][n].content
\* the pass has replaced the content that peer d held at n
Replaced(d, n) ==
    ~Exists(disk[d], n) \/ disk[d][n].content # pre.disk[d][n].content

\* C38: a directory pass (that streams nothing) replaces the content that a
\* peer without metadata holds at a path which another peer holds with a
\* different content only if that content is still on disk afterwards or
\* the pass counts a conflict
C38_NoSilentOverwriteAtFresh ==
    (AfterSyncSet /\ Ops("stream") = {}) =>
        \A s, d \in PeerIds : \A n \in CanonNames :
            (FreshWithOwnVersion(s, d, n) /\ Replaced(d, n)) =>
                \/ OnDiskNow(pre.disk[d][n].content)
                \/ result.conflicts >= 1

\* before the pass: peer p held the recorded n and could not read it, and
\* every peer held n
WasUnreadable(p, n) ==
    /\ Recorded(p, n)
    /\ Exists(pre.disk[p], n) /\ ~Readable(pre.disk[p][n])
    /\ \A q \in PeerIds : Exists(pre.disk[q], n)

\* C39: a file that a synced peer still holds but cannot read when its
\* manifest is built, and that no peer has deleted, is deleted at no peer by
\* the pass
C39_UnreadableIsNotDeleted ==
    AfterSyncSet =>
        \A p \in PeerIds : \A n \in CanonNames :
            WasUnreadable(p, n) =>
                /\ \A q \in PeerIds : Exists(disk[q], n)
                /\ \A i \in Ops("delete") : trace[i].name # n

\* directory a lies above path x
RECURSIVE IsAbove(_, _)
IsAbove(a, x) ==
    IF Len(x) <= Len(a) THEN FALSE
    ELSE dirname(x) = a \/ IsAbove(a, dirname(x))
Removed == os.tree.before \ os.tree.dirs

\* C40: deleteFile removes only directories that lie above the deleted file
\* and below the peer root, each of them empty when removed; of the
\* directories above the file and below the root those that remain are not
\* empty (the walk has stopped at the first one that is not); no file or
\* directory has lost its parent; the root and the directories outside it
\* remain
C40_PruneBelowRoot ==
    os.tree.deleted # "" =>
        /\ \A a \in Removed : IsAbove(a, os.tree.deleted) /\ IsAbove(Root, a)
        /\ \A a \in os.tree.dirs :
              (IsAbove(a, os.tree.deleted) /\ IsAbove(Root, a)) =>
                  readdirSync(os.tree, a) # {}
        /\ \A x \in os.tree.dirs \cup os.tree.files :
              IsAbove(Root, x) => dirname(x) \in os.tree.dirs
        /\ Root \in os.tree.dirs
        /\ Outside \subseteq os.tree.dirs
\* the last file below two directories has been deleted at a root that the
\* configuration spells with a slash at its end: both directories are gone,
\* the root is not
C40_Witness ==
    /\ os.tree.deleted # ""
    /\ os.tree.dirPath # Root
    /\ Cardinality(Removed) = 2
    /\ Root \in os.tree.dirs

====
